---- MODULE Spec2Model ----
(***************************************************************************)
(* Model of koishi-plugin-serverinfo-rest-client: the player command, its  *)
(* two formatters (plain text and Typst markup), the field filter, the     *)
(* lookup tables, the Typst escaping routine, the output mode resolver.    *)
(*                                                                         *)
(* Strings are sequences of characters.  A character is a one-character    *)
(* TLA+ string; a fixed piece of a template literal of the source is one   *)
(* atomic token (the emoji and CJK text of the source are transliterated   *)
(* to ASCII, e.g. the heart emoji is ":heart:").  No token of a template   *)
(* is a character of the input alphabet, so a piece of a template and a    *)
(* piece of input are never confused.                                      *)
(*                                                                         *)
(* A JavaScript number is [def, val]: def = FALSE is undefined ; the      *)
(* numbers of the model are integers.                                      *)
(***************************************************************************)
EXTENDS Integers, Sequences, FiniteSets, TLC

VARIABLES
    call,       \* pure-function harness: the function under test and its arguments
    ret,        \* pure-function harness: the value it returned
    cfg,        \* the plugin configuration (Config), fixed after load
    now,        \* the wall clock read by new Date()
    fmtIn,      \* formatter harness: (player, queryName, label) handed to the formatters
    fmtOut,     \* formatter harness: the outputs returned so far, in call order
    inv,        \* the invocations of the player command: position and locals of each
    sharedRenderer, \* the module-level sharedRenderer and the fields of its TypstRenderer
    ctx,        \* the Koishi context: which services are there
    reg,        \* the prefix and label registerPlayerCommand was called with
    api         \* one call of the API client's get: its position, timer and controller

vars == <<call, ret, cfg, now, fmtIn, fmtOut, inv, sharedRenderer, ctx, reg, api>>
cmdVars == <<inv, sharedRenderer, ctx, reg, api>>

(***************************************************************************)
(* Bounds of the model.                                                    *)
(***************************************************************************)
MaxEscLen == 3      \* length of the strings handed to escapeTypstText alone
MaxFilters == 3     \* length of the filter lists handed to isFieldEnabled alone
MaxCode == 12       \* lookup codes range over -MaxCode..MaxCode
MaxModes == 2       \* length of the configured default mode list
MaxClock == 1       \* the clock runs over 0..MaxClock
MaxFieldLen == 1    \* length of the string drawn for one field of a formatter call
MaxToggles == 1     \* filter entries of one section flipped at once
MaxTimeout == 4     \* cfg.timeout ranges over 1..MaxTimeout ticks of the clock of get
MaxInv == 2         \* invocations of the player command in flight at once
MaxInits == 2       \* the calls of init() are counted up to MaxInits
MaxOverrun == 2     \* a call of get is followed for cfg.timeout + MaxOverrun ticks

(***************************************************************************)
(* Characters and strings.                                                 *)
(***************************************************************************)
Backslash == "\\"
Backtick == "(backtick)"     \* the character U+0060, which a TLA+ string cannot hold
SpecialChars == {"\\", "[", "]", "#", "$", Backtick, "*", "_", "<", ">", "@"}
LineChars == {"\n", "\r", "\t"}
PlainChars == {"a", " "}
Alphabet == SpecialChars \cup LineChars \cup PlainChars
\* The characters of the strings drawn for a field of a formatter call.
FieldChars == SpecialChars \cup {"\n", "a"}

StringsUpTo(chars, n) == UNION {[1..k -> chars] : k \in 0..n}

\* The concatenation of parts[lo..hi], by halves.
RECURSIVE ConcatRange(_, _, _)
ConcatRange(parts, lo, hi) ==
    IF lo > hi THEN <<>>
    ELSE IF lo = hi THEN parts[lo]
    ELSE LET mid == (lo + hi) \div 2
         IN  ConcatRange(parts, lo, mid) \o ConcatRange(parts, mid + 1, hi)

Concat(parts) == ConcatRange(parts, 1, Len(parts))

\* s.includes(t)
Includes(s, t) ==
    \E i \in 0..(Len(s) - Len(t)) : SubSeq(s, i + 1, i + Len(t)) = t

Digit(d) == <<"0", "1", "2", "3", "4", "5", "6", "7", "8", "9">>[d + 1]

RECURSIVE NatToStr(_)
NatToStr(n) ==
    IF n < 10 THEN <<Digit(n)>> ELSE NatToStr(n \div 10) \o <<Digit(n % 10)>>

IntToStr(n) == IF n < 0 THEN <<"-">> \o NatToStr(-n) ELSE NatToStr(n)

Num(n) == [def |-> TRUE, val |-> n]
Undefined == [def |-> FALSE, val |-> 0]

\* ${x} of a number in a template literal
NumToStr(x) == IF x.def THEN IntToStr(x.val) ELSE <<"undefined">>

(***************************************************************************)
(* isFieldEnabled (player.ts 98-101).                                      *)
(***************************************************************************)
\* filters.find(f => f.key === key) over filters[lo..hi]: the left half first.
RECURSIVE findRange(_, _, _, _)
findRange(filters, lo, hi, key) ==
    IF lo > hi THEN [found |-> FALSE, enabled |-> FALSE]
    ELSE IF lo = hi
         THEN IF filters[lo].key = key
              THEN [found |-> TRUE, enabled |-> filters[lo].enabled]
              ELSE [found |-> FALSE, enabled |-> FALSE]
    ELSE LET mid == (lo + hi) \div 2
             left == findRange(filters, lo, mid, key)
         IN  IF left.found THEN left ELSE findRange(filters, mid + 1, hi, key)

find(filters, key) == findRange(filters, 1, Len(filters), key)

\* The parent of a dotted path ("device.ip" -> "device"), for the paths of the
\* pure-function harness.
ParentOf(key) ==
    CASE key = "device.ip" -> "device"
      [] key = "pos.dimId" -> "pos"
      [] OTHER -> "(none)"

\* A resolver that also lets a parent entry or a "*" entry decide.
isFieldEnabledPrefix(c, key) ==
    LET hits == {i \in 1..Len(c.playerFieldFilters) :
                    c.playerFieldFilters[i].key \in {key, ParentOf(key), "*"}}
    IN  IF ~c.hasFilters \/ hits = {} THEN TRUE
        ELSE c.playerFieldFilters[CHOOSE i \in hits : \A j \in hits : i <= j].enabled

isFieldEnabled(c, key) ==
    LET filter == IF c.hasFilters THEN find(c.playerFieldFilters, key)
                  ELSE [found |-> FALSE, enabled |-> FALSE]
    IN  IF filter.found THEN filter.enabled ELSE TRUE


(***************************************************************************)
(* Lookup tables (player.ts 103-143).  A table is a function from its keys *)
(* to its labels; MAP[code] || fallback takes the fallback when the code   *)
(* is no key or the label is the empty string.                             *)
(***************************************************************************)
INPUT_MODE_MAP ==
    (1 :> <<":keyboard: Keyboard+mouse">>) @@ (2 :> <<":phone: Touch">>)
    @@ (3 :> <<":gamepad: Controller">>)

DIMENSION_MAP ==
    (0 :> <<":earth: Overworld">>) @@ (1 :> <<":fire: Nether">>)
    @@ (2 :> <<":galaxy: The End">>)

GAMEMODE_MAP ==
    (0 :> <<":dagger: Survival">>) @@ (1 :> <<":palette: Creative">>)
    @@ (2 :> <<":target: Adventure">>) @@ (3 :> <<":eye: Spectator">>)

PERM_LEVEL_MAP ==
    (0 :> <<":bust: Member">>) @@ (1 :> <<":star: Operator">>)
    @@ (2 :> <<":crown: Admin">>) @@ (3 :> <<":shield: Owner">>)

\* A fallback that leaves the code out.
UnknownLabelNoCode(x) == <<":question: Unknown ", "(", ")">>

UnknownLabel(x) == <<":question: Unknown ", "(">> \o NumToStr(x) \o <<")">>

\* MAP[x] || "? Unknown (${x})"
LookupOr(map, x) ==
    IF x.def /\ x.val \in DOMAIN map /\ map[x.val] # <<>>
    THEN map[x.val]
    ELSE UnknownLabel(x)

getDimension(dimId) == LookupOr(DIMENSION_MAP, dimId)

getGameMode(mode) == LookupOr(GAMEMODE_MAP, mode)

getPermLevel(level) == LookupOr(PERM_LEVEL_MAP, level)

getInputMode(mode) == LookupOr(INPUT_MODE_MAP, mode)

(***************************************************************************)
(* resolveOutputModes (player.ts 1023-1029).  modeArg is [def, val]; the   *)
(* test  if (modeArg)  fails for undefined and for the empty string.       *)
(***************************************************************************)
OutputMode == {"text", "typst-image"}

\* A resolver that insists on a non-empty result and accepts the name of the
\* image mode itself.
resolveOutputModesLoose(modeArg, c) ==
    IF modeArg.def /\ modeArg.val = "text" THEN <<"text">>
    ELSE IF modeArg.def /\ modeArg.val \in {"image", "typst-image"}
         THEN <<"typst-image">>
    ELSE IF c.defaultOutputModes = <<>> THEN <<"text">>
    ELSE c.defaultOutputModes

resolveOutputModes(modeArg, c) ==
    IF modeArg.def /\ modeArg.val # "" /\ modeArg.val = "text" THEN <<"text">>
    ELSE IF modeArg.def /\ modeArg.val # "" /\ modeArg.val = "image"
         THEN <<"typst-image">>
    ELSE c.defaultOutputModes

(***************************************************************************)
(* escapeTypstText (player.ts 871-887): fourteen replace calls in a row,   *)
(* each a global replace of one character.                                 *)
(***************************************************************************)
\* str.replace(/pat/g, rep) for a pattern of one character
replace(str, pat, rep) ==
    Concat([i \in 1..Len(str) |-> IF str[i] = pat THEN rep ELSE <<str[i]>>])

Esc(c) == <<Backslash, c>>

\* The same replacements with the backslash escaped last instead of first.
escapeTypstTextBackslashLast(str) ==
    LET s1 == replace(str, "[", Esc("["))
        s2 == replace(s1, "]", Esc("]"))
        s3 == replace(s2, "#", Esc("#"))
        s4 == replace(s3, "$", Esc("$"))
        s5 == replace(s4, Backtick, Esc(Backtick))
        s6 == replace(s5, "*", Esc("*"))
        s7 == replace(s6, "_", Esc("_"))
        s8 == replace(s7, "<", Esc("<"))
        s9 == replace(s8, ">", Esc(">"))
        s10 == replace(s9, "@", Esc("@"))
        s11 == replace(s10, Backslash, Esc(Backslash))
        s12 == replace(s11, "\n", <<" ">>)
        s13 == replace(s12, "\r", <<>>)
    IN  replace(s13, "\t", <<" ">>)

\* The same replacements with the carriage return turned into a space.
escapeTypstTextCrSpace(str) ==
    LET s1 == replace(str, Backslash, Esc(Backslash))
        s2 == replace(s1, "[", Esc("["))
        s3 == replace(s2, "]", Esc("]"))
        s4 == replace(s3, "#", Esc("#"))
        s5 == replace(s4, "$", Esc("$"))
        s6 == replace(s5, Backtick, Esc(Backtick))
        s7 == replace(s6, "*", Esc("*"))
        s8 == replace(s7, "_", Esc("_"))
        s9 == replace(s8, "<", Esc("<"))
        s10 == replace(s9, ">", Esc(">"))
        s11 == replace(s10, "@", Esc("@"))
        s12 == replace(s11, "\n", <<" ">>)
        s13 == replace(s12, "\r", <<" ">>)
    IN  replace(s13, "\t", <<" ">>)

escapeTypstText(str) ==
    LET s1 == replace(str, Backslash, Esc(Backslash))
        s2 == replace(s1, "[", Esc("["))
        s3 == replace(s2, "]", Esc("]"))
        s4 == replace(s3, "#", Esc("#"))
        s5 == replace(s4, "$", Esc("$"))
        s6 == replace(s5, Backtick, Esc(Backtick))
        s7 == replace(s6, "*", Esc("*"))
        s8 == replace(s7, "_", Esc("_"))
        s9 == replace(s8, "<", Esc("<"))
        s10 == replace(s9, ">", Esc(">"))
        s11 == replace(s10, "@", Esc("@"))
        s12 == replace(s11, "\n", <<" ">>)
        s13 == replace(s12, "\r", <<>>)
    IN  replace(s13, "\t", <<" ">>)


(***************************************************************************)
(* JavaScript values of the record.  A string is [def, val] with val a     *)
(* sequence of characters; an object of the record is a record with a def  *)
(* field.  An expression that throws a TypeError yields the token          *)
(* TypeErrorTok, and a formatter whose output holds it has thrown.         *)
(***************************************************************************)
Str(s) == [def |-> TRUE, val |-> s]
UndefinedStr == [def |-> FALSE, val |-> <<>>]
TypeErrorTok == "!TypeError"

\* ${x} of a string in a template literal
ToStr(x) == IF x.def THEN x.val ELSE <<"undefined">>

\* x.toFixed(2); a property read on undefined throws
toFixed2(x) == IF x.def THEN IntToStr(x.val) \o <<".", "0", "0">> ELSE <<TypeErrorTok>>

\* (x * 100).toFixed(2); undefined * 100 is NaN
pctToFixed2(x) ==
    IF x.def THEN IntToStr(x.val * 100) \o <<".", "0", "0">> ELSE <<"NaN">>

\* x?.toFixed(2) ?? 'N/A'
toFixed2OrNA(x) == IF x.def THEN toFixed2(x) ELSE <<"N/A">>

\* parts.join(sep)
join(parts, sep) ==
    Concat([i \in 1..Len(parts) |-> IF i = 1 THEN parts[i] ELSE sep \o parts[i]])

WhiteSpace == {" ", "\n", "\r", "\t"}

trimEnd(s) ==
    LET keep == {i \in 1..Len(s) : s[i] \notin WhiteSpace}
    IN  IF keep = {} THEN <<>>
        ELSE SubSeq(s, 1, CHOOSE i \in keep : \A j \in keep : j <= i)

NoPos == [def |-> FALSE, x |-> Undefined, y |-> Undefined, z |-> Undefined,
          dimId |-> Undefined]
NoBiome == [def |-> FALSE, id |-> Undefined, name |-> UndefinedStr]
NoBlock == [def |-> FALSE, type |-> UndefinedStr, name |-> UndefinedStr]
NoDevice ==
    [def |-> FALSE, ip |-> UndefinedStr, os |-> UndefinedStr, clientId |-> UndefinedStr,
     inputMode |-> Undefined, serverAddress |-> UndefinedStr, avgPing |-> Undefined,
     avgPacketLoss |-> Undefined, lastPing |-> Undefined, lastPacketLoss |-> Undefined]
\* handItem / offHandItem: json is JSON.stringify of the object
NoItem == [def |-> FALSE, json |-> <<>>]
\* armor / tags: an array, items its elements
NoArray == [def |-> FALSE, items |-> <<>>]

\* The boolean fields of PlayerInfo; player.truthy is the set of those that are true.
BoolFields ==
    {"isOP", "isSimulatedPlayer", "isFlying", "isSneaking", "isSprinting", "isMoving",
     "isInAir", "isInWater", "isInLava", "isOnGround", "isOnFire", "isSleeping",
     "isGliding", "isRiding", "isInvisible", "isHungry", "canFly", "canSleep",
     "canPickupItems"}

\* A record with nothing but def: every field undefined.
EmptyPlayer ==
    [def |-> TRUE, name |-> UndefinedStr, xuid |-> UndefinedStr, uuid |-> UndefinedStr,
     uniqueId |-> UndefinedStr, langCode |-> UndefinedStr,
     permLevel |-> Undefined, gameMode |-> Undefined, health |-> Undefined,
     maxHealth |-> Undefined, speed |-> Undefined, level |-> Undefined,
     currentExp |-> Undefined, totalExp |-> Undefined,
     expNeededForNextLevel |-> Undefined,
     truthy |-> {},
     pos |-> NoPos, blockPos |-> NoPos, feetPos |-> NoPos, lastDeathPos |-> NoPos,
     respawnPos |-> NoPos, biome |-> NoBiome, standingOn |-> NoBlock,
     device |-> NoDevice, handItem |-> NoItem, offHandItem |-> NoItem,
     armor |-> NoArray, tags |-> NoArray]

\* null / undefined in place of the record
NullPlayer == [EmptyPlayer EXCEPT !.def = FALSE]

\* A test that forgets the record without a name.
NoNameNullOnly(player) == ~player.def

\* !player || !player.name
NoName(player) == ~player.def \/ ~player.name.def \/ player.name.val = <<>>

(***************************************************************************)
(* formatTextOutput (player.ts 145-312).                                   *)
(***************************************************************************)
Bullet == "  * "
YesNo(b) == IF b THEN <<":check: Yes">> ELSE <<":cross: No">>

TextHeadings ==
    [basic |-> <<":clipboard: Basic info:">>, game |-> <<":gamepad: Game status:">>,
     exp |-> <<":star: Experience:">>, pos |-> <<":pin: Position:">>,
     env |-> <<":earth: Environment:">>, device |-> <<":phone: Device:">>,
     items |-> <<":backpack: Items:">>]

\* if (cond) list.push(line)
PushIf(cond, line) == IF cond THEN <<line>> ELSE <<>>

\* A heading pushed whether or not the section has lines.
TextSectionAlways(heading, sectionLines, blankAfter) ==
    <<heading>> \o sectionLines \o (IF blankAfter THEN <<<<>>>> ELSE <<>>)

\* if (section.length > 0) { lines.push(heading); lines.push(...section); lines.push('') }
TextSection(heading, sectionLines, blankAfter) ==
    IF Len(sectionLines) > 0
    THEN <<heading>> \o sectionLines \o (IF blankAfter THEN <<<<>>>> ELSE <<>>)
    ELSE <<>>

\* The flags of the status line, in the order of the source, with their labels.
TextFlags ==
    << <<"isFlying", ":eagle: Flying">>, <<"isSneaking", ":snake: Sneaking">>,
       <<"isSprinting", ":runner: Sprinting">>, <<"isMoving", ":walker: Moving">>,
       <<"isInAir", ":cloud: In air">>, <<"isInWater", ":droplet: In water">>,
       <<"isInLava", ":fire: In lava">>, <<"isOnGround", ":bricks: On ground">>,
       <<"isOnFire", ":fire: On fire">>, <<"isSleeping", ":sleeping: Sleeping">>,
       <<"isGliding", ":parachute: Gliding">>, <<"isRiding", ":horse: Riding">>,
       <<"isInvisible", ":ghost: Invisible">>, <<"isHungry", ":meat: Hungry">>,
       <<"canFly", ":plane: Can fly">> >>

\* Every enabled flag pushed, whatever its value.
PushFlagsEnabled(table, c, player) ==
    Concat([i \in 1..Len(table) |->
              PushIf(isFieldEnabled(c, table[i][1]), <<table[i][2]>>)])

\* if (isFieldEnabled(cfg, f) && player[f]) flags.push(label), for each flag in turn
PushFlags(table, c, player) ==
    Concat([i \in 1..Len(table) |->
              PushIf(isFieldEnabled(c, table[i][1]) /\ table[i][1] \in player.truthy,
                     <<table[i][2]>>)])

\* `${p.x}, ${p.y}, ${p.z}`
Coords(p) == NumToStr(p.x) \o <<", ">> \o NumToStr(p.y) \o <<", ">> \o NumToStr(p.z)

\* `${p.x.toFixed(2)}, ${p.y.toFixed(2)}, ${p.z.toFixed(2)}`
CoordsFixed(p) == toFixed2(p.x) \o <<", ">> \o toFixed2(p.y) \o <<", ">> \o toFixed2(p.z)

\* The lines array of the success branch, before the join.
formatTextLines(player, c, label) ==
    LET en(k) == isFieldEnabled(c, k)
        basicInfo ==
            PushIf(en("xuid"), <<Bullet, "XUID: ">> \o ToStr(player.xuid))
            \o PushIf(en("uuid"), <<Bullet, "UUID: ">> \o ToStr(player.uuid))
            \o PushIf(en("uniqueId"), <<Bullet, "UniqueId: ">> \o ToStr(player.uniqueId))
            \o PushIf(en("permLevel"),
                      <<Bullet, "Permission level: ">> \o getPermLevel(player.permLevel))
            \o PushIf(en("isOP"), <<Bullet, "OP: ">> \o YesNo("isOP" \in player.truthy))
            \o PushIf(en("isSimulatedPlayer"),
                      <<Bullet, "Simulated player: ">>
                      \o YesNo("isSimulatedPlayer" \in player.truthy))
            \o PushIf(en("langCode"), <<Bullet, "Language: ">> \o ToStr(player.langCode))
        flags == PushFlags(TextFlags, c, player)
        gameStatus ==
            PushIf(en("gameMode"), <<Bullet, "Game mode: ">> \o getGameMode(player.gameMode))
            \o PushIf(en("health") /\ en("maxHealth"),
                      <<Bullet, "Health: ">> \o NumToStr(player.health) \o <<"/">>
                      \o NumToStr(player.maxHealth) \o <<" :heart:">>)
            \o PushIf(en("speed"), <<Bullet, "Speed: ">> \o toFixed2OrNA(player.speed))
            \o PushIf(Len(flags) > 0, <<Bullet, "Status: ">> \o join(flags, <<" | ">>))
        expInfo ==
            PushIf(en("level"), <<Bullet, "Level: ">> \o NumToStr(player.level))
            \o PushIf(en("currentExp"),
                      <<Bullet, "Current exp: ">> \o NumToStr(player.currentExp))
            \o PushIf(en("totalExp"), <<Bullet, "Total exp: ">> \o NumToStr(player.totalExp))
            \o PushIf(en("expNeededForNextLevel"),
                      <<Bullet, "Exp needed: ">> \o NumToStr(player.expNeededForNextLevel))
        posInfo ==
            PushIf(en("pos.dimId") /\ player.pos.def,
                   <<Bullet, "Dimension: ">> \o getDimension(player.pos.dimId))
            \o PushIf(en("pos") /\ player.pos.def,
                      <<Bullet, "Exact position: ">> \o CoordsFixed(player.pos))
            \o PushIf(en("blockPos") /\ player.blockPos.def,
                      <<Bullet, "Block position: ">> \o Coords(player.blockPos))
            \o PushIf(en("feetPos") /\ player.feetPos.def,
                      <<Bullet, "Feet position: ">> \o CoordsFixed(player.feetPos))
            \o PushIf(en("lastDeathPos") /\ player.lastDeathPos.def,
                      <<Bullet, "Last death: ">> \o Coords(player.lastDeathPos) \o <<" (">>
                      \o getDimension(player.lastDeathPos.dimId) \o <<")">>)
            \o PushIf(en("respawnPos") /\ player.respawnPos.def,
                      <<Bullet, "Respawn point: ">> \o Coords(player.respawnPos) \o <<" (">>
                      \o getDimension(player.respawnPos.dimId) \o <<")">>)
        biomeDisplay ==
            IF en("biome.id")
            THEN ToStr(player.biome.name) \o <<" (ID: ">> \o NumToStr(player.biome.id)
                 \o <<")">>
            ELSE ToStr(player.biome.name)
        blockDisplay ==
            IF en("standingOn.type")
            THEN ToStr(player.standingOn.name) \o <<" (">> \o ToStr(player.standingOn.type)
                 \o <<")">>
            ELSE ToStr(player.standingOn.name)
        envInfo ==
            PushIf((en("biome") \/ en("biome.name")) /\ player.biome.def,
                   <<Bullet, "Biome: ">> \o biomeDisplay)
            \o PushIf((en("standingOn") \/ en("standingOn.name")) /\ player.standingOn.def,
                      <<Bullet, "Standing on: ">> \o blockDisplay)
        d == player.device
        deviceInfo ==
            PushIf(en("device.os"), <<Bullet, "OS: ">> \o ToStr(d.os))
            \o PushIf(en("device.inputMode"),
                      <<Bullet, "Input mode: ">> \o getInputMode(d.inputMode))
            \o PushIf(en("device.ip"), <<Bullet, "IP address: ">> \o ToStr(d.ip))
            \o PushIf(en("device.clientId"), <<Bullet, "Client ID: ">> \o ToStr(d.clientId))
            \o PushIf(en("device.serverAddress"),
                      <<Bullet, "Server address: ">> \o ToStr(d.serverAddress))
            \o PushIf(en("device.avgPing"),
                      <<Bullet, "Average ping: ">> \o NumToStr(d.avgPing) \o <<"ms">>)
            \o PushIf(en("device.lastPing"),
                      <<Bullet, "Last ping: ">> \o NumToStr(d.lastPing) \o <<"ms">>)
            \o PushIf(en("device.avgPacketLoss"),
                      <<Bullet, "Average packet loss: ">> \o pctToFixed2(d.avgPacketLoss)
                      \o <<"%">>)
            \o PushIf(en("device.lastPacketLoss"),
                      <<Bullet, "Last packet loss: ">> \o pctToFixed2(d.lastPacketLoss)
                      \o <<"%">>)
        itemInfo ==
            PushIf(en("handItem") /\ player.handItem.def,
                   <<Bullet, "Main hand: ">> \o player.handItem.json)
            \o PushIf(en("offHandItem") /\ player.offHandItem.def,
                      <<Bullet, "Off hand: ">> \o player.offHandItem.json)
            \o PushIf(en("armor") /\ player.armor.def /\ Len(player.armor.items) > 0,
                      <<Bullet, "Armor: ", "[">> \o join(player.armor.items, <<",">>)
                      \o <<"]">>)
            \o PushIf(en("tags") /\ player.tags.def /\ Len(player.tags.items) > 0,
                      <<Bullet, "Tags: ">> \o join(player.tags.items, <<", ">>))
    IN  << ToStr(label) \o <<" :bust: Player details: ">> \o ToStr(player.name), <<>> >>
        \o TextSection(TextHeadings.basic, basicInfo, TRUE)
        \o TextSection(TextHeadings.game, gameStatus, TRUE)
        \o TextSection(TextHeadings.exp, expInfo, TRUE)
        \o TextSection(TextHeadings.pos, posInfo, TRUE)
        \o TextSection(TextHeadings.env, envInfo, TRUE)
        \o (IF en("device") /\ d.def
            THEN TextSection(TextHeadings.device, deviceInfo, TRUE) ELSE <<>>)
        \o TextSection(TextHeadings.items, itemInfo, FALSE)

TextNotFound(queryName, label) ==
    ToStr(label) \o <<" :bust: Player query", "\n", "\n", ":cross: Player not found: ">>
    \o queryName

\* The string the call evaluates to, TypeErrorTok inside it when an expression threw.
formatTextRaw(player, queryName, c, label) ==
    IF NoName(player) THEN TextNotFound(queryName, label)
    ELSE trimEnd(join(formatTextLines(player, c, label), <<"\n">>))

Threw == [threw |-> TRUE, out |-> <<>>]
Returns(s) == [threw |-> FALSE, out |-> s]
Completion(raw) ==
    IF \E i \in 1..Len(raw) : raw[i] = TypeErrorTok THEN Threw ELSE Returns(raw)

formatTextOutput(player, queryName, c, label) ==
    Completion(formatTextRaw(player, queryName, c, label))

(***************************************************************************)
(* toTypstColor and buildTypstTheme (player.ts 847-869).                   *)
(***************************************************************************)
trimStart(s) ==
    LET keep == {i \in 1..Len(s) : s[i] \notin WhiteSpace}
    IN  IF keep = {} THEN <<>>
        ELSE SubSeq(s, CHOOSE i \in keep : \A j \in keep : i <= j, Len(s))

trim(s) == trimEnd(trimStart(s))

IsDigit(c) == \E d \in 0..9 : c = Digit(d)

\* The position after the whitespace that starts at position i (\s*).
RECURSIVE SkipWs(_, _)
SkipWs(s, i) == IF i <= Len(s) /\ s[i] \in WhiteSpace THEN SkipWs(s, i + 1) ELSE i

\* How many of the next three characters from position i are a run of digits (\d{1,3}).
DigitRun(s, i) ==
    IF i <= Len(s) /\ IsDigit(s[i])
    THEN IF i + 1 <= Len(s) /\ IsDigit(s[i + 1])
         THEN IF i + 2 <= Len(s) /\ IsDigit(s[i + 2]) THEN 3 ELSE 2
         ELSE 1
    ELSE 0

At(s, i, chars) == i <= Len(s) /\ s[i] \in chars

\* v.match(/^rgb\s*\(\s*(\d{1,3})\s*,\s*(\d{1,3})\s*,\s*(\d{1,3})\s*\)$/i)
rgbMatch(v) ==
    LET none == [ok |-> FALSE, r |-> <<>>, g |-> <<>>, b |-> <<>>]
        p1 == SkipWs(v, 4)
        p2 == SkipWs(v, p1 + 1)
        n1 == DigitRun(v, p2)
        p3 == SkipWs(v, p2 + n1)
        p4 == SkipWs(v, p3 + 1)
        n2 == DigitRun(v, p4)
        p5 == SkipWs(v, p4 + n2)
        p6 == SkipWs(v, p5 + 1)
        n3 == DigitRun(v, p6)
        p7 == SkipWs(v, p6 + n3)
    IN  IF /\ At(v, 1, {"r", "R"}) /\ At(v, 2, {"g", "G"}) /\ At(v, 3, {"b", "B"})
           /\ At(v, p1, {"("})
           /\ n1 > 0 /\ At(v, p3, {","})
           /\ n2 > 0 /\ At(v, p5, {","})
           /\ n3 > 0 /\ At(v, p7, {")"})
           /\ p7 = Len(v)
        THEN [ok |-> TRUE, r |-> SubSeq(v, p2, p2 + n1 - 1),
              g |-> SubSeq(v, p4, p4 + n2 - 1), b |-> SubSeq(v, p6, p6 + n3 - 1)]
        ELSE none

toTypstColor(value, fallback) ==
    LET v == trim(IF value.def THEN value.val ELSE <<>>)
        m == rgbMatch(v)
    IN  IF v = <<>> THEN <<"rgb(", "\"">> \o fallback \o <<"\"", ")">>
        ELSE IF v[1] = "#" THEN <<"rgb(", "\"">> \o v \o <<"\"", ")">>
        ELSE IF m.ok THEN <<"rgb(">> \o m.r \o <<", ">> \o m.g \o <<", ">> \o m.b \o <<")">>
        ELSE <<"rgb(", "\"">> \o fallback \o <<"\"", ")">>

FallbackColors ==
    [pageBg |-> <<"#", "f", "9", "e", "f", "e", "2">>,
     textColor |-> <<"#", "2", "f", "2", "f", "3", "5">>,
     headerFill |-> <<"#", "5", "d", "a", "d", "e", "2">>,
     headerStroke |-> <<"#", "3", "4", "9", "8", "d", "b">>,
     headerText |-> <<"#", "f", "f", "f", "f", "f", "f">>,
     panelFill |-> <<"#", "f", "f", "f", "b", "f", "8">>,
     panelStroke |-> <<"#", "f", "3", "e", "f", "e", "5">>,
     sectionTitle |-> <<"#", "2", "9", "8", "0", "b", "9">>,
     statsText |-> <<"#", "8", "7", "8", "8", "a", "5">>]

buildTypstTheme(c) ==
    [fontFamily |-> IF c.typstFontFamily.def /\ c.typstFontFamily.val # <<>>
                    THEN c.typstFontFamily.val ELSE <<"LXGW WenKai Mono">>,
     pageBg |-> toTypstColor(c.typstPageBgColor, FallbackColors.pageBg),
     textColor |-> toTypstColor(c.typstTextColor, FallbackColors.textColor),
     headerFill |-> toTypstColor(c.typstHeaderFillColor, FallbackColors.headerFill),
     headerStroke |-> toTypstColor(c.typstHeaderStrokeColor, FallbackColors.headerStroke),
     headerText |-> toTypstColor(c.typstHeaderTextColor, FallbackColors.headerText),
     panelFill |-> toTypstColor(c.typstPanelFillColor, FallbackColors.panelFill),
     panelStroke |-> toTypstColor(c.typstPanelStrokeColor, FallbackColors.panelStroke),
     sectionTitle |-> toTypstColor(c.typstSectionTitleColor, FallbackColors.sectionTitle),
     statsText |-> toTypstColor(c.typstStatsTextColor, FallbackColors.statsText)]

(***************************************************************************)
(* generateTypstCode (player.ts 314-652).  The document is kept as the     *)
(* sequence of its pieces: a piece is [src, text], src = "" for a piece of *)
(* the template itself and the interpolated expression for a ${...}; the   *)
(* string the function returns is the concatenation of the texts.          *)
(***************************************************************************)
Lit(tok) == <<[src |-> "", text |-> <<tok>>]>>
Interp(src, text) == <<[src |-> src, text |-> text]>>

Flatten(doc) == Concat([i \in 1..Len(doc) |-> doc[i].text])

\* The string as it is, not escaped.
escapeJsRaw(x) == IF x.def THEN x.val ELSE <<TypeErrorTok>>

\* escapeTypstText(x): str.replace on undefined throws
escapeJs(x) == IF x.def THEN escapeTypstText(x.val) ELSE <<TypeErrorTok>>

\* A date string without the seconds.
toLocaleStringNoSeconds(t) ==
    <<"2", "0", "2", "6", "/", "1", "/", "1", " ", "1", "2", ":", "0", "0">>

\* new Date().toLocaleString('zh-CN') at clock reading t (seconds of one minute)
toLocaleString(t) ==
    <<"2", "0", "2", "6", "/", "1", "/", "1", " ", "1", "2", ":", "0", "0", ":">>
    \o (IF t < 10 THEN <<"0">> ELSE <<>>) \o NatToStr(t)

PageSetup(width, theme) ==
    Lit("#set page(") \o Lit(width) \o Lit("height: auto, margin: (x: 14pt, y: 14pt), fill: ")
    \o Interp("theme.pageBg", theme.pageBg) \o Lit(")")

TextSetup(theme) ==
    Lit("#set text(font: (\"") \o Interp("theme.fontFamily", theme.fontFamily)
    \o Lit("\", \"Noto Sans CJK SC\", \"Microsoft YaHei\"), size: 11pt, fill: ")
    \o Interp("theme.textColor", theme.textColor) \o Lit(", lang: \"zh\")")

HeaderOpen(theme) ==
    Lit("#align(center)[#block(fill: ") \o Interp("theme.headerFill", theme.headerFill)
    \o Lit(", stroke: 2pt + ") \o Interp("theme.headerStroke", theme.headerStroke)
    \o Lit(", radius: 6pt, inset: 10pt, width: 100%)[#text(size: 16pt, weight: \"bold\", fill: ")
    \o Interp("theme.headerText", theme.headerText) \o Lit(")[")

BlockOpen(theme) ==
    Lit("#block(fill: ") \o Interp("theme.panelFill", theme.panelFill)
    \o Lit(", stroke: 1pt + ") \o Interp("theme.panelStroke", theme.panelStroke)
    \o Lit(", radius: 4pt, inset: 12pt, width: 100%)[")

Footer(theme, timestamp) ==
    Lit("#v(8pt)") \o Lit("#align(center)[#text(size: 8pt, fill: ")
    \o Interp("theme.statsText", theme.statsText)
    \o Lit(")[Generated by serverinfo-rest-client . ")
    \o Interp("timestamp", escapeTypstText(timestamp)) \o Lit("]]")

PanelTitles ==
    [basic |-> ":clipboard: Basic info", game |-> ":gamepad: Game status",
     exp |-> ":star: Experience", pos |-> ":pin: Position",
     env |-> ":earth: Environment", device |-> ":phone: Device"]

PanelHead(theme, title) ==
    BlockOpen(theme) \o Lit("#text(weight: \"bold\", fill: ")
    \o Interp("theme.sectionTitle", theme.sectionTitle) \o Lit(")[") \o Lit(title)
    \o Lit("]") \o Lit("#v(6pt)")

\* The separator of panels.join
PanelSep == "\n\n#v(6pt)\n\n"

TablePanel(theme, title, rows) ==
    PanelHead(theme, title)
    \o Lit("#table(columns: (auto, 1fr), stroke: none, row-gutter: 4pt,")
    \o join(rows, Lit("\n    ")) \o Lit(")") \o Lit("]")

GridPanel(theme, title, items) ==
    PanelHead(theme, title)
    \o Lit("#grid(columns: (1fr, 1fr), gutter: 8pt,")
    \o join(items, Lit(",\n    ")) \o Lit(",") \o Lit(")") \o Lit("]")

\* if (rows.length > 0) panels.push(panel)
PushPanel(rows, panel) == IF Len(rows) > 0 THEN <<panel>> ELSE <<>>

TypstFlags ==
    << <<"isOP", ":crown: OP">>, <<"isFlying", ":eagle: Flying">>,
       <<"isSneaking", ":snake: Sneaking">>, <<"isSprinting", ":runner: Sprinting">>,
       <<"isInWater", ":droplet: In water">>, <<"isInLava", ":fire: Lava">>,
       <<"isOnFire", ":fire: On fire">>, <<"isGliding", ":parachute: Gliding">>,
       <<"isRiding", ":horse: Riding">>, <<"isInvisible", ":ghost: Invisible">> >>

\* [key], [value],
Row(key, value) == Lit("[") \o Lit(key) \o Lit("], [") \o value \o Lit("],")

\* [key], [#text(size: 9pt)[value]],
SmallRow(key, value) ==
    Lit("[") \o Lit(key) \o Lit("], [#text(size: 9pt)[") \o value \o Lit("]],")

\* [key: value]
Item(key, value) == Lit("[") \o Lit(key) \o value \o Lit("]")

\* The not-found document without the text setup.
generateTypstNotFoundBare(queryName, theme, label, timestamp) ==
    PageSetup("width: 400pt,", theme)
    \o HeaderOpen(theme) \o Interp("label", escapeJs(label)) \o Lit(" :bust: Player query")
    \o Lit("]]]")
    \o Lit("#v(8pt)")
    \o BlockOpen(theme) \o Lit("#align(center)[#text(size: 12pt)[:cross: Player not found: ")
    \o Interp("queryName", escapeTypstText(queryName)) \o Lit("]]") \o Lit("]")
    \o Footer(theme, timestamp)

generateTypstNotFound(queryName, theme, label, timestamp) ==
    PageSetup("width: 400pt,", theme) \o TextSetup(theme)
    \o HeaderOpen(theme) \o Interp("label", escapeJs(label)) \o Lit(" :bust: Player query")
    \o Lit("]]]")
    \o Lit("#v(8pt)")
    \o BlockOpen(theme) \o Lit("#align(center)[#text(size: 12pt)[:cross: Player not found: ")
    \o Interp("queryName", escapeTypstText(queryName)) \o Lit("]]") \o Lit("]")
    \o Footer(theme, timestamp)

generateTypstFound(player, theme, c, label, timestamp) ==
    LET en(k) == isFieldEnabled(c, k)
        flags == PushFlags(TypstFlags, c, player)
        basicInfoRows ==
            PushIf(en("xuid"), SmallRow("XUID", Interp("xuid", escapeJs(player.xuid))))
            \o PushIf(en("uuid"), SmallRow("UUID", Interp("uuid", escapeJs(player.uuid))))
            \o PushIf(en("uniqueId"),
                      SmallRow("UniqueId", Interp("uniqueId", escapeJs(player.uniqueId))))
            \o PushIf(en("permLevel"),
                      Row("Permission level",
                          Interp("permLevel",
                                 escapeTypstText(getPermLevel(player.permLevel)))))
            \o PushIf(en("isSimulatedPlayer"),
                      Row("Simulated player",
                          Interp("isSimulatedPlayer",
                                 YesNo("isSimulatedPlayer" \in player.truthy))))
            \o PushIf(en("langCode"),
                      Row("Language", Interp("langCode", escapeJs(player.langCode))))
        gameStatusItems ==
            PushIf(en("gameMode"),
                   Item("Game mode: ",
                        Interp("gameMode", escapeTypstText(getGameMode(player.gameMode)))))
            \o PushIf(en("health") /\ en("maxHealth"),
                      Item("Health: :heart: ",
                           Interp("health", NumToStr(player.health)) \o Lit("/")
                           \o Interp("maxHealth", NumToStr(player.maxHealth))))
            \o PushIf(en("speed"),
                      Item("Speed: :runner: ", Interp("speed", toFixed2OrNA(player.speed))))
            \o PushIf(en("isHungry"),
                      Item("Hungry: ",
                           Interp("isHungry",
                                  IF "isHungry" \in player.truthy
                                  THEN <<":meat: Yes">> ELSE <<":drumstick: No">>)))
        expItems ==
            PushIf(en("level"), Item("Level: :star: ", Interp("level", NumToStr(player.level))))
            \o PushIf(en("currentExp"),
                      Item("Current exp: ", Interp("currentExp", NumToStr(player.currentExp))))
            \o PushIf(en("totalExp"),
                      Item("Total exp: ", Interp("totalExp", NumToStr(player.totalExp))))
            \o PushIf(en("expNeededForNextLevel"),
                      Item("Exp needed: ",
                           Interp("expNeededForNextLevel",
                                  NumToStr(player.expNeededForNextLevel))))
        posInfoRows ==
            PushIf(en("pos.dimId") /\ player.pos.def,
                   Row("Dimension",
                       Interp("pos.dimId", escapeTypstText(getDimension(player.pos.dimId)))))
            \o PushIf(en("pos") /\ player.pos.def,
                      Row("Exact position", Interp("pos", CoordsFixed(player.pos))))
            \o PushIf(en("blockPos") /\ player.blockPos.def,
                      Row("Block position", Interp("blockPos", Coords(player.blockPos))))
            \o PushIf(en("lastDeathPos") /\ player.lastDeathPos.def,
                      Row("Last death", Interp("lastDeathPos", Coords(player.lastDeathPos))))
            \o PushIf(en("respawnPos") /\ player.respawnPos.def,
                      Row("Respawn point", Interp("respawnPos", Coords(player.respawnPos))))
        biomeDisplay ==
            IF en("biome.id")
            THEN ToStr(player.biome.name) \o <<" (ID: ">> \o NumToStr(player.biome.id)
                 \o <<")">>
            ELSE ToStr(player.biome.name)
        envInfoRows ==
            PushIf((en("biome") \/ en("biome.name")) /\ player.biome.def,
                   Row("Biome", Interp("biome.name", escapeTypstText(biomeDisplay))))
            \o PushIf((en("standingOn") \/ en("standingOn.name")) /\ player.standingOn.def,
                      Row("Standing on",
                          Interp("standingOn.name", escapeJs(player.standingOn.name))))
        d == player.device
        deviceInfoRows ==
            IF en("device") /\ d.def
            THEN PushIf(en("device.os"), Row("OS", Interp("device.os", escapeJs(d.os))))
                 \o PushIf(en("device.inputMode"),
                           Row("Input mode",
                               Interp("device.inputMode",
                                      escapeTypstText(getInputMode(d.inputMode)))))
                 \o PushIf(en("device.ip"),
                           SmallRow("IP address", Interp("device.ip", escapeJs(d.ip))))
                 \o PushIf(en("device.serverAddress"),
                           SmallRow("Server address",
                                    Interp("device.serverAddress",
                                           escapeJs(d.serverAddress))))
                 \o PushIf(en("device.avgPing"),
                           Row("Average ping",
                               Interp("device.avgPing", NumToStr(d.avgPing)) \o Lit("ms")))
                 \o PushIf(en("device.lastPing"),
                           Row("Last ping",
                               Interp("device.lastPing", NumToStr(d.lastPing)) \o Lit("ms")))
                 \o PushIf(en("device.avgPacketLoss"),
                           Row("Average packet loss",
                               Interp("device.avgPacketLoss", pctToFixed2(d.avgPacketLoss))
                               \o Lit("%")))
            ELSE <<>>
        panels ==
            PushPanel(basicInfoRows, TablePanel(theme, PanelTitles.basic, basicInfoRows))
            \o PushPanel(gameStatusItems,
                         GridPanel(theme, PanelTitles.game, gameStatusItems))
            \o PushPanel(expItems, GridPanel(theme, PanelTitles.exp, expItems))
            \o PushPanel(posInfoRows, TablePanel(theme, PanelTitles.pos, posInfoRows))
            \o PushPanel(envInfoRows, TablePanel(theme, PanelTitles.env, envInfoRows))
            \o PushPanel(deviceInfoRows,
                         TablePanel(theme, PanelTitles.device, deviceInfoRows))
    IN  PageSetup("width: 450pt,", theme) \o TextSetup(theme)
        \o HeaderOpen(theme) \o Interp("label", escapeJs(label)) \o Lit(" :bust: ")
        \o Interp("name", escapeJs(player.name)) \o Lit("]")
        \o (IF Len(flags) > 0
            THEN Lit("#h(8pt) #text(size: 11pt, fill: ")
                 \o Interp("theme.headerText", theme.headerText) \o Lit(")[")
                 \o Interp("flags", join(flags, <<" ">>)) \o Lit("]")
            ELSE <<>>)
        \o Lit("]]")
        \o Lit("#v(8pt)")
        \o join(panels, Lit(PanelSep))
        \o Footer(theme, timestamp)

\* The pieces of the document generated at clock reading t.
generateTypstParts(player, queryName, theme, c, label, t) ==
    LET timestamp == toLocaleString(t)
    IN  IF NoName(player) THEN generateTypstNotFound(queryName, theme, label, timestamp)
        ELSE generateTypstFound(player, theme, c, label, timestamp)

generateTypstCode(player, queryName, theme, c, label, t) ==
    Completion(Flatten(generateTypstParts(player, queryName, theme, c, label, t)))

(***************************************************************************)
(* The configuration.  DefaultCfg is the Schema's default for the fields   *)
(* the model reads; OpenCfg has an empty filter list, so that every field  *)
(* is shown.                                                               *)
(***************************************************************************)
Entry(k, e) == [key |-> k, enabled |-> e]

(* The default filter list of the Schema (part_000 113-181), in order.     *)
DefaultFilters ==
    << Entry("name", TRUE), Entry("xuid", TRUE), Entry("uuid", TRUE),
       Entry("uniqueId", FALSE), Entry("permLevel", TRUE), Entry("isOP", TRUE),
       Entry("isSimulatedPlayer", TRUE), Entry("langCode", TRUE),
       Entry("gameMode", TRUE), Entry("health", TRUE), Entry("maxHealth", TRUE),
       Entry("speed", TRUE), Entry("isFlying", TRUE), Entry("isSneaking", TRUE),
       Entry("isSprinting", TRUE), Entry("isMoving", TRUE), Entry("isInAir", TRUE),
       Entry("isInWater", TRUE), Entry("isInLava", TRUE), Entry("isOnGround", TRUE),
       Entry("isOnFire", TRUE), Entry("isSleeping", TRUE), Entry("isGliding", TRUE),
       Entry("isRiding", TRUE), Entry("isInvisible", TRUE), Entry("isHungry", TRUE),
       Entry("canFly", TRUE), Entry("canSleep", TRUE), Entry("canPickupItems", TRUE),
       Entry("pos", FALSE), Entry("pos.dimId", TRUE), Entry("blockPos", FALSE),
       Entry("feetPos", FALSE), Entry("lastDeathPos", FALSE),
       Entry("respawnPos", FALSE), Entry("direction", FALSE),
       Entry("biome", TRUE), Entry("biome.id", FALSE), Entry("biome.name", TRUE),
       Entry("standingOn", TRUE), Entry("standingOn.type", FALSE),
       Entry("standingOn.name", TRUE),
       Entry("level", TRUE), Entry("currentExp", TRUE), Entry("totalExp", TRUE),
       Entry("expNeededForNextLevel", TRUE),
       Entry("handItem", TRUE), Entry("offHandItem", TRUE), Entry("armor", TRUE),
       Entry("tags", TRUE),
       Entry("device", FALSE), Entry("device.ip", FALSE), Entry("device.os", TRUE),
       Entry("device.clientId", FALSE), Entry("device.inputMode", TRUE),
       Entry("device.serverAddress", FALSE), Entry("device.avgPing", TRUE),
       Entry("device.avgPacketLoss", TRUE), Entry("device.lastPing", TRUE),
       Entry("device.lastPacketLoss", TRUE) >>

\* The themed groups of that list (its comments), by position in the list.
SectionNames == {"basic", "game", "pos", "env", "exp", "items", "device"}

SectionRange(sec) ==
    CASE sec = "basic" -> 1..8
      [] sec = "game" -> 9..29
      [] sec = "pos" -> 30..36
      [] sec = "env" -> 37..42
      [] sec = "exp" -> 43..46
      [] sec = "items" -> 47..50
      [] sec = "device" -> 51..60

SectionKeys(sec) == {DefaultFilters[i].key : i \in SectionRange(sec)}

DefaultCfg ==
    [hasFilters |-> TRUE,
     playerFieldFilters |-> DefaultFilters,
     defaultOutputModes |-> <<"text">>,
     quoteCommandReplies |-> TRUE,
     typstFontFamily |-> UndefinedStr,
     typstPageBgColor |-> Str(FallbackColors.pageBg),
     typstTextColor |-> Str(FallbackColors.textColor),
     typstHeaderFillColor |-> Str(FallbackColors.headerFill),
     typstHeaderStrokeColor |-> Str(FallbackColors.headerStroke),
     typstHeaderTextColor |-> Str(FallbackColors.headerText),
     typstPanelFillColor |-> Str(FallbackColors.panelFill),
     typstPanelStrokeColor |-> Str(FallbackColors.panelStroke),
     typstSectionTitleColor |-> Str(FallbackColors.sectionTitle),
     typstStatsTextColor |-> Str(FallbackColors.statsText)]

OpenCfg == [DefaultCfg EXCEPT !.playerFieldFilters = <<>>]

(***************************************************************************)
(* The formatters, called on inputs drawn at Init: fmtIn.calls times each,  *)
(* once or twice.  fmtOut keeps, for each formatter, what its last call    *)
(* and the call before it returned; a call of generateTypstCode also keeps *)
(* the clock reading it took.                                              *)
(***************************************************************************)
NoRet == [done |-> FALSE, bool |-> FALSE, modes |-> <<>>, str |-> <<>>]
NoCall == [fn |-> "none", key |-> "", modeArg |-> Undefined, code |-> 0, str |-> <<>>]
NoFmtIn == [player |-> NullPlayer, queryName |-> <<>>, label |-> UndefinedStr, calls |-> 0]
NoOutcome == [called |-> FALSE, threw |-> FALSE, out |-> <<>>, clock |-> 0]
Outcome(completion, t) ==
    [called |-> TRUE, threw |-> completion.threw, out |-> completion.out, clock |-> t]
NoFmtOut ==
    [textLast |-> NoOutcome, textPrev |-> NoOutcome,
     typstLast |-> NoOutcome, typstPrev |-> NoOutcome]

\* let sharedRenderer: TypstRenderer | null = null; typst = null; initialized = false
\* id tells the instances apart, constructed counts the calls of the constructor,
\* inits the calls of init(), counted up to MaxInits.
NoRenderer == [exists |-> FALSE, initialized |-> FALSE, typst |-> FALSE, id |-> 0,
               constructed |-> 0, inits |-> 0]
NoCtx == [node |-> FALSE, toImageService |-> FALSE, resvg |-> FALSE]
NoReg == [prefix |-> UndefinedStr, label |-> UndefinedStr]
\* No call of get under way; timeout is cfg.timeout, elapsed the time since the call.
NoGet == [pc |-> "idle", timer |-> "none", aborted |-> FALSE, timeout |-> 1,
          elapsed |-> 0, error |-> "", fetchCalls |-> 0]

\* The plugin is loaded and no command is registered.
NoCommand ==
    /\ inv = <<>>
    /\ sharedRenderer = NoRenderer
    /\ ctx = NoCtx
    /\ reg = NoReg
    /\ api = NoGet

CallsMade(last, prev) == (IF last.called THEN 1 ELSE 0) + (IF prev.called THEN 1 ELSE 0)

CallFormatText ==
    /\ CallsMade(fmtOut.textLast, fmtOut.textPrev) < fmtIn.calls
    /\ fmtOut' = [fmtOut EXCEPT
                    !.textPrev = fmtOut.textLast,
                    !.textLast = Outcome(formatTextOutput(fmtIn.player, fmtIn.queryName,
                                                          cfg, fmtIn.label), 0)]
    /\ UNCHANGED <<cmdVars, call, ret, cfg, now, fmtIn>>

CallGenerateTypstCode ==
    /\ CallsMade(fmtOut.typstLast, fmtOut.typstPrev) < fmtIn.calls
    /\ fmtOut' = [fmtOut EXCEPT
                    !.typstPrev = fmtOut.typstLast,
                    !.typstLast = Outcome(generateTypstCode(fmtIn.player, fmtIn.queryName,
                                                            buildTypstTheme(cfg), cfg,
                                                            fmtIn.label, now), now)]
    /\ UNCHANGED <<cmdVars, call, ret, cfg, now, fmtIn>>

\* Time passes.
Tick ==
    /\ now < MaxClock
    /\ now' = now + 1
    /\ UNCHANGED <<cmdVars, call, ret, cfg, fmtIn, fmtOut>>

NextFmt == CallFormatText \/ CallGenerateTypstCode

NextClock == CallFormatText \/ CallGenerateTypstCode \/ Tick

(***************************************************************************)
(* Records the formatters are called on.                                   *)
(***************************************************************************)
Pos(x, y, z, dim) ==
    [def |-> TRUE, x |-> Num(x), y |-> Num(y), z |-> Num(z), dimId |-> dim]

\* The record of the end-to-end example: every other field is missing.
Steve ==
    [EmptyPlayer EXCEPT
        !.name = Str(<<"S", "t", "e", "v", "e">>),
        !.xuid = Str(<<"1", "2", "3">>),
        !.health = Num(18),
        !.maxHealth = Num(20),
        !.truthy = {"isFlying"}]

\* A record with every field present and every boolean true.
FullPlayer ==
    [def |-> TRUE,
     name |-> Str(<<"A", "l", "e", "x">>),
     xuid |-> Str(<<"2", "5", "3", "5">>),
     uuid |-> Str(<<"a", "b", "-", "1", "2">>),
     uniqueId |-> Str(<<"-", "4", "2">>),
     langCode |-> Str(<<"z", "h", "_", "C", "N">>),
     permLevel |-> Num(1), gameMode |-> Num(0), health |-> Num(18),
     maxHealth |-> Num(20), speed |-> Num(4), level |-> Num(30),
     currentExp |-> Num(7), totalExp |-> Num(1395), expNeededForNextLevel |-> Num(112),
     truthy |-> BoolFields,
     pos |-> Pos(10, 64, -3, Num(0)),
     blockPos |-> Pos(10, 63, -3, Undefined),
     feetPos |-> Pos(10, 62, -3, Num(0)),
     lastDeathPos |-> Pos(5, 11, 8, Num(1)),
     respawnPos |-> Pos(0, 70, 0, Num(7)),
     biome |-> [def |-> TRUE, id |-> Num(1), name |-> Str(<<"p", "l", "a", "i", "n", "s">>)],
     standingOn |-> [def |-> TRUE, type |-> Str(<<"minecraft:grass_block">>),
                     name |-> Str(<<"G", "r", "a", "s", "s">>)],
     device |-> [def |-> TRUE, ip |-> Str(<<"1", "0", ".", "0", ".", "0", ".", "7">>),
                 os |-> Str(<<"W", "i", "n", "1", "0">>),
                 clientId |-> Str(<<"c", "1">>), inputMode |-> Num(1),
                 serverAddress |-> Str(<<"m", "c", ":", "1", "9">>),
                 avgPing |-> Num(23), avgPacketLoss |-> Num(0), lastPing |-> Num(31),
                 lastPacketLoss |-> Num(1)],
     handItem |-> [def |-> TRUE, json |-> <<"{\"type\":\"minecraft:stick\"}">>],
     offHandItem |-> [def |-> TRUE, json |-> <<"{\"type\":\"minecraft:shield\"}">>],
     armor |-> [def |-> TRUE, items |-> << <<"{\"type\":\"minecraft:helmet\"}">> >>],
     tags |-> [def |-> TRUE, items |-> << <<"v", "i", "p">>, <<"o", "p">> >>]]

NoNamePlayers ==
    {NullPlayer, EmptyPlayer, [FullPlayer EXCEPT !.name = Str(<<>>)]}

DefaultLabel == Str(<<"[", "M", "C", "]">>)
DefaultQuery == <<"A", "l", "e", "x">>

(***************************************************************************)
(* SpecDoc: the formatters on records whose strings vary.  One string of   *)
(* the call (a field of the record, the query or the label) is drawn from  *)
(* DocStrings, the others keep the values of the base record.              *)
(***************************************************************************)
AllSpecials == <<Backslash, "[", "]", "#", "$", Backtick, "*", "_", "<", ">", "@">>

DocStrings ==
    StringsUpTo(FieldChars, MaxFieldLen)
    \cup {AllSpecials, <<Backslash, "[">>, <<"a", "\n", "#", "\r", "_">>}

PlayerSlots ==
    {"name", "xuid", "uuid", "uniqueId", "langCode", "biome.name", "standingOn.name",
     "device.os", "device.ip", "device.serverAddress"}

SetSlot(in, slot, s) ==
    CASE slot = "queryName" -> [in EXCEPT !.queryName = s]
      [] slot = "label" -> [in EXCEPT !.label = Str(s)]
      [] slot = "name" -> [in EXCEPT !.player.name = Str(s)]
      [] slot = "xuid" -> [in EXCEPT !.player.xuid = Str(s)]
      [] slot = "uuid" -> [in EXCEPT !.player.uuid = Str(s)]
      [] slot = "uniqueId" -> [in EXCEPT !.player.uniqueId = Str(s)]
      [] slot = "langCode" -> [in EXCEPT !.player.langCode = Str(s)]
      [] slot = "biome.name" -> [in EXCEPT !.player.biome.name = Str(s)]
      [] slot = "standingOn.name" -> [in EXCEPT !.player.standingOn.name = Str(s)]
      [] slot = "device.os" -> [in EXCEPT !.player.device.os = Str(s)]
      [] slot = "device.ip" -> [in EXCEPT !.player.device.ip = Str(s)]
      [] slot = "device.serverAddress" -> [in EXCEPT !.player.device.serverAddress = Str(s)]

FmtInput(player, calls) ==
    [player |-> player, queryName |-> DefaultQuery, label |-> DefaultLabel, calls |-> calls]

DocInputs ==
    {SetSlot(FmtInput(FullPlayer, 1), slot, s) :
        slot \in PlayerSlots \cup {"queryName", "label"}, s \in DocStrings}
    \cup {SetSlot(FmtInput(p, 1), "queryName", s) : p \in NoNamePlayers, s \in DocStrings}
    \cup {SetSlot(FmtInput(EmptyPlayer, 1), "label", s) : s \in DocStrings}

InitDoc ==
    /\ call = NoCall
    /\ ret = NoRet
    /\ NoCommand
    /\ cfg = OpenCfg
    /\ now = 0
    /\ fmtIn \in DocInputs
    /\ fmtOut = NoFmtOut

SpecDoc == InitDoc /\ [][NextFmt]_vars

(***************************************************************************)
(* Pure functions, one call each: Init draws the function and its          *)
(* arguments, the action applies the function and keeps what it returned.  *)
(***************************************************************************)

PureKeys == {"device", "device.ip", "*"}
PurePaths == {"device", "device.ip", "pos.dimId"}
PureFilterLists ==
    UNION {[1..k -> [key : PureKeys, enabled : BOOLEAN]] : k \in 0..MaxFilters}
ModeArgs ==
    {Undefined} \cup
    {[def |-> TRUE, val |-> v] : v \in {"", "text", "image", "typst-image", "TEXT"}}
ModeLists == UNION {[1..k -> OutputMode] : k \in 0..MaxModes}
Codes == (0 - MaxCode)..MaxCode
LookupFns == {"getDimension", "getGameMode", "getPermLevel", "getInputMode"}

InitPure ==
    /\ ret = NoRet
    /\ NoCommand
    /\ now = 0
    /\ fmtIn = NoFmtIn
    /\ fmtOut = NoFmtOut
    /\ \/ /\ \E fl \in PureFilterLists, h \in BOOLEAN :
                cfg = [DefaultCfg EXCEPT !.playerFieldFilters = fl, !.hasFilters = h]
          /\ \E k \in PurePaths : call = [NoCall EXCEPT !.fn = "isFieldEnabled", !.key = k]
       \/ /\ \E ml \in ModeLists : cfg = [DefaultCfg EXCEPT !.defaultOutputModes = ml]
          /\ \E m \in ModeArgs :
                call = [NoCall EXCEPT !.fn = "resolveOutputModes", !.modeArg = m]
       \/ /\ cfg = DefaultCfg
          /\ \E f \in LookupFns, c \in Codes : call = [NoCall EXCEPT !.fn = f, !.code = c]
       \/ /\ cfg = DefaultCfg
          /\ \E s \in StringsUpTo(Alphabet, MaxEscLen) :
                call = [NoCall EXCEPT !.fn = "escapeTypstText", !.str = s]

Pending(fn) == call.fn = fn /\ ~ret.done

CallIsFieldEnabled ==
    /\ Pending("isFieldEnabled")
    /\ ret' = [NoRet EXCEPT !.done = TRUE, !.bool = isFieldEnabled(cfg, call.key)]
    /\ UNCHANGED <<cmdVars, call, cfg, now, fmtIn, fmtOut>>

CallResolveOutputModes ==
    /\ Pending("resolveOutputModes")
    /\ ret' = [NoRet EXCEPT !.done = TRUE, !.modes = resolveOutputModes(call.modeArg, cfg)]
    /\ UNCHANGED <<cmdVars, call, cfg, now, fmtIn, fmtOut>>

CallGetDimension ==
    /\ Pending("getDimension")
    /\ ret' = [NoRet EXCEPT !.done = TRUE, !.str = getDimension(Num(call.code))]
    /\ UNCHANGED <<cmdVars, call, cfg, now, fmtIn, fmtOut>>

CallGetGameMode ==
    /\ Pending("getGameMode")
    /\ ret' = [NoRet EXCEPT !.done = TRUE, !.str = getGameMode(Num(call.code))]
    /\ UNCHANGED <<cmdVars, call, cfg, now, fmtIn, fmtOut>>

CallGetPermLevel ==
    /\ Pending("getPermLevel")
    /\ ret' = [NoRet EXCEPT !.done = TRUE, !.str = getPermLevel(Num(call.code))]
    /\ UNCHANGED <<cmdVars, call, cfg, now, fmtIn, fmtOut>>

CallGetInputMode ==
    /\ Pending("getInputMode")
    /\ ret' = [NoRet EXCEPT !.done = TRUE, !.str = getInputMode(Num(call.code))]
    /\ UNCHANGED <<cmdVars, call, cfg, now, fmtIn, fmtOut>>

CallEscapeTypstText ==
    /\ Pending("escapeTypstText")
    /\ ret' = [NoRet EXCEPT !.done = TRUE, !.str = escapeTypstText(call.str)]
    /\ UNCHANGED <<cmdVars, call, cfg, now, fmtIn, fmtOut>>

NextPure ==
    \/ CallIsFieldEnabled
    \/ CallResolveOutputModes
    \/ CallGetDimension
    \/ CallGetGameMode
    \/ CallGetPermLevel
    \/ CallGetInputMode
    \/ CallEscapeTypstText

SpecPure == InitPure /\ [][NextPure]_vars

Returned(fn) == call.fn = fn /\ ret.done

(***************************************************************************)
(* C1: isFieldEnabled returns the enabled value of the first entry whose   *)
(* key is exactly the path, and TRUE when the list has no such entry (or   *)
(* is missing); entries with any other key, a parent path or "*" among     *)
(* them, never change the result.                                          *)
(***************************************************************************)
FirstExact(fl, key) ==
    LET hits == {i \in 1..Len(fl) : fl[i].key = key}
    IN  IF hits = {} THEN 0 ELSE CHOOSE i \in hits : \A j \in hits : i <= j

C1_FirstExactMatchOrTrue ==
    Returned("isFieldEnabled") =>
        LET fl == IF cfg.hasFilters THEN cfg.playerFieldFilters ELSE <<>>
            i == FirstExact(fl, call.key)
        IN  /\ i = 0 => ret.bool = TRUE
            /\ i > 0 => ret.bool = fl[i].enabled

C1_Witness ==
    /\ Returned("isFieldEnabled")
    /\ call.key = "device.ip"
    /\ cfg.hasFilters
    /\ cfg.playerFieldFilters =
          <<Entry("device", FALSE), Entry("*", FALSE), Entry("device.ip", TRUE)>>
    /\ ret.bool = TRUE

(***************************************************************************)
(* C2: resolveOutputModes: "text" gives <<"text">>, "image" gives          *)
(* <<"typst-image">>, an absent or unrecognized override (the empty string *)
(* included) gives the configured default list unchanged, empty or not.    *)
(***************************************************************************)
C2_ModeResolution ==
    Returned("resolveOutputModes") =>
        /\ (call.modeArg.def /\ call.modeArg.val = "text") => ret.modes = <<"text">>
        /\ (call.modeArg.def /\ call.modeArg.val = "image")
              => ret.modes = <<"typst-image">>
        /\ (~call.modeArg.def \/ call.modeArg.val \notin {"text", "image"})
              => ret.modes = cfg.defaultOutputModes

C2_Witness ==
    /\ Returned("resolveOutputModes")
    /\ call.modeArg = [def |-> TRUE, val |-> ""]
    /\ cfg.defaultOutputModes = <<>>
    /\ ret.modes = <<>>

(***************************************************************************)
(* C3: each of the four lookups returns the table's label for a code that  *)
(* is a key of its table and, for every other integer code, a fallback     *)
(* label whose parenthesised part reads back as exactly that code.         *)
(***************************************************************************)
TableOf(fn) ==
    CASE fn = "getDimension" -> DIMENSION_MAP
      [] fn = "getGameMode" -> GAMEMODE_MAP
      [] fn = "getPermLevel" -> PERM_LEVEL_MAP
      [] fn = "getInputMode" -> INPUT_MODE_MAP

DigitVal(c) == CHOOSE d \in 0..9 : Digit(d) = c

RECURSIVE ParseNat(_)
ParseNat(s) ==
    IF Len(s) = 1 THEN DigitVal(s[1])
    ELSE 10 * ParseNat(SubSeq(s, 1, Len(s) - 1)) + DigitVal(s[Len(s)])

IsNumeral(s) ==
    /\ Len(s) >= 1
    /\ LET body == IF s[1] = "-" THEN Tail(s) ELSE s
       IN  Len(body) >= 1 /\ \A i \in 1..Len(body) : \E d \in 0..9 : body[i] = Digit(d)

ParseInt(s) == IF s[1] = "-" THEN 0 - ParseNat(Tail(s)) ELSE ParseNat(s)

C3_LookupLabelOrFallbackWithCode ==
    (call.fn \in LookupFns /\ ret.done) =>
        LET map == TableOf(call.fn) IN
        IF call.code \in DOMAIN map
        THEN ret.str = map[call.code]
        ELSE /\ Len(ret.str) >= 4
             /\ ret.str[2] = "("
             /\ ret.str[Len(ret.str)] = ")"
             /\ LET inner == SubSeq(ret.str, 3, Len(ret.str) - 1)
                IN  IsNumeral(inner) /\ ParseInt(inner) = call.code

C3_Witness ==
    /\ Returned("getInputMode")
    /\ call.code = 0
    /\ ret.str = <<":question: Unknown ", "(", "0", ")">>

(***************************************************************************)
(* C7: for an input without newline, carriage return or tab,               *)
(* escapeTypstText turns each special character c into backslash+c and     *)
(* leaves every other character alone (no inserted backslash is escaped    *)
(* again), and dropping the backslash of each pair, left to right, gives   *)
(* the input back.                                                         *)
(***************************************************************************)
RECURSIVE Unescape(_)
Unescape(s) ==
    IF s = <<>> THEN <<>>
    ELSE IF s[1] = Backslash /\ Len(s) >= 2
         THEN <<s[2]>> \o Unescape(SubSeq(s, 3, Len(s)))
         ELSE <<s[1]>> \o Unescape(Tail(s))

CharwiseEscaped(s) ==
    Concat([i \in 1..Len(s) |-> IF s[i] \in SpecialChars THEN Esc(s[i]) ELSE <<s[i]>>])

NoLineChars(s) == \A i \in 1..Len(s) : s[i] \notin LineChars

C7_EscapeRoundTrip ==
    (Returned("escapeTypstText") /\ NoLineChars(call.str)) =>
        /\ ret.str = CharwiseEscaped(call.str)
        /\ Unescape(ret.str) = call.str

C7_Witness ==
    /\ Returned("escapeTypstText")
    /\ call.str = <<Backslash, "[", "_">>
    /\ ret.str = <<Backslash, Backslash, Backslash, "[", Backslash, "_">>

(***************************************************************************)
(* C4 (as stated): for a record that is absent or has no name, both        *)
(* formatters return the not-found variant, which contains the query       *)
(* string verbatim and nothing of the success layout.                      *)
(***************************************************************************)
Has(s, tok) == \E i \in 1..Len(s) : s[i] = tok

\* The record is absent, or has no name or an empty one.
Nameless(p) == ~p.def \/ ~p.name.def \/ p.name.val = <<>>

\* Tokens that only the success layout of a formatter emits.
TextSuccessTokens ==
    {TextHeadings[k][1] : k \in DOMAIN TextHeadings} \cup {Bullet, " :bust: Player details: "}
TypstSuccessTokens ==
    {PanelTitles[k] : k \in DOMAIN PanelTitles}
    \cup {" :bust: ", "#table(columns: (auto, 1fr), stroke: none, row-gutter: 4pt,",
          "#grid(columns: (1fr, 1fr), gutter: 8pt,", "width: 450pt,"}

NotFoundShape(o, tokens) ==
    /\ ~o.threw
    /\ \A tok \in tokens : ~Has(o.out, tok)

C4_NotFoundHasQueryVerbatim ==
    Nameless(fmtIn.player) =>
        /\ fmtOut.textLast.called =>
              /\ NotFoundShape(fmtOut.textLast, TextSuccessTokens)
              /\ Includes(fmtOut.textLast.out, fmtIn.queryName)
        /\ fmtOut.typstLast.called =>
              /\ NotFoundShape(fmtOut.typstLast, TypstSuccessTokens)
              /\ Includes(fmtOut.typstLast.out, fmtIn.queryName)

(***************************************************************************)
(* C4 (amended): for a record that is absent or has no name, both          *)
(* formatters return the not-found variant with nothing of the success     *)
(* layout; the text output contains the query string verbatim, the markup  *)
(* output contains escapeTypstText(query), which is the query verbatim     *)
(* exactly when the query has no special and no line character.            *)
(***************************************************************************)
C4_NotFoundHasQueryEscapedInMarkup ==
    Nameless(fmtIn.player) =>
        /\ fmtOut.textLast.called =>
              /\ NotFoundShape(fmtOut.textLast, TextSuccessTokens)
              /\ Has(fmtOut.textLast.out, ":cross: Player not found: ")
              /\ Includes(fmtOut.textLast.out, fmtIn.queryName)
        /\ fmtOut.typstLast.called =>
              /\ NotFoundShape(fmtOut.typstLast, TypstSuccessTokens)
              /\ Has(fmtOut.typstLast.out, "width: 400pt,")
              /\ Includes(fmtOut.typstLast.out,
                          <<"#align(center)[#text(size: 12pt)[:cross: Player not found: ">>
                          \o CharwiseEscaped(replace(replace(fmtIn.queryName, "\n", <<" ">>),
                                                     "\r", <<>>))
                          \o <<"]]">>)
              /\ (\A i \in 1..Len(fmtIn.queryName) :
                      fmtIn.queryName[i] \notin SpecialChars \cup LineChars)
                    => Includes(fmtOut.typstLast.out, fmtIn.queryName)

C4_Witness ==
    /\ fmtIn.player = NullPlayer
    /\ fmtIn.queryName = <<"_">>
    /\ fmtOut.textLast.called
    /\ Includes(fmtOut.textLast.out, <<":cross: Player not found: ", "_">>)
    /\ fmtOut.typstLast.called
    /\ Includes(fmtOut.typstLast.out, <<Backslash, "_", "]]">>)

(***************************************************************************)
(* C6: in the document generateTypstCode returns, every piece that comes   *)
(* from an upstream or user-supplied string (label, query, name, xuid,     *)
(* uuid, uniqueId, langCode, biome name, standing-on name, device os, ip,  *)
(* serverAddress, timestamp) is escaped: each special character in it      *)
(* stands directly after an escaping backslash, and unescaping the piece   *)
(* gives the field back (line characters collapsed).                       *)
(***************************************************************************)
RECURSIVE WellEscapedFrom(_, _)
WellEscapedFrom(t, i) ==
    IF i > Len(t) THEN TRUE
    ELSE IF t[i] = Backslash
         THEN i + 1 <= Len(t) /\ t[i + 1] \in SpecialChars /\ WellEscapedFrom(t, i + 2)
         ELSE t[i] \notin SpecialChars /\ WellEscapedFrom(t, i + 1)

WellEscaped(t) == WellEscapedFrom(t, 1)

\* The string a piece is made from.
UpstreamValue(in, src, clock) ==
    CASE src = "label" -> in.label.val
      [] src = "queryName" -> in.queryName
      [] src = "timestamp" -> toLocaleString(clock)
      [] src = "name" -> in.player.name.val
      [] src = "xuid" -> in.player.xuid.val
      [] src = "uuid" -> in.player.uuid.val
      [] src = "uniqueId" -> in.player.uniqueId.val
      [] src = "langCode" -> in.player.langCode.val
      [] src = "biome.name" -> in.player.biome.name.val
      [] src = "standingOn.name" -> in.player.standingOn.name.val
      [] src = "device.os" -> in.player.device.os.val
      [] src = "device.ip" -> in.player.device.ip.val
      [] src = "device.serverAddress" -> in.player.device.serverAddress.val

UpstreamSrcs == PlayerSlots \cup {"label", "queryName", "timestamp"}

\* The field with its line characters removed as the escaping removes them.
Collapsed(s) ==
    Concat([i \in 1..Len(s) |->
              IF s[i] = "\r" THEN <<>> ELSE IF s[i] \in {"\n", "\t"} THEN <<" ">> ELSE <<s[i]>>])

IsPrefix(p, s) == Len(p) <= Len(s) /\ SubSeq(s, 1, Len(p)) = p

C6_UpstreamStringsEscaped ==
    (fmtOut.typstLast.called /\ ~fmtOut.typstLast.threw) =>
        LET doc == generateTypstParts(fmtIn.player, fmtIn.queryName, buildTypstTheme(cfg),
                                      cfg, fmtIn.label, fmtOut.typstLast.clock)
            expected == IF Nameless(fmtIn.player) THEN {"label", "queryName", "timestamp"}
                        ELSE PlayerSlots \cup {"label", "timestamp"}
        IN  /\ Flatten(doc) = fmtOut.typstLast.out
            /\ \A src \in expected : \E i \in 1..Len(doc) : doc[i].src = src
            /\ \A i \in 1..Len(doc) :
                  doc[i].src \in UpstreamSrcs =>
                      /\ WellEscaped(doc[i].text)
                      /\ IsPrefix(Collapsed(UpstreamValue(fmtIn, doc[i].src,
                                                          fmtOut.typstLast.clock)),
                                  Unescape(doc[i].text))

C6_Witness ==
    /\ fmtOut.typstLast.called /\ ~fmtOut.typstLast.threw
    /\ fmtIn.player.def
    /\ fmtIn.player.device.ip = Str(<<"#">>)
    /\ Includes(fmtOut.typstLast.out, <<"], [#text(size: 9pt)[", Backslash, "#", "]],">>)

(***************************************************************************)
(* SpecClock: each formatter called twice on the same inputs while the     *)
(* clock runs.                                                             *)
(***************************************************************************)
ClockInputs == {FmtInput(p, 2) : p \in {FullPlayer, Steve, NullPlayer, EmptyPlayer}}

InitClock ==
    /\ call = NoCall
    /\ ret = NoRet
    /\ NoCommand
    /\ cfg \in {DefaultCfg, OpenCfg}
    /\ now = 0
    /\ fmtIn \in ClockInputs
    /\ fmtOut = NoFmtOut

SpecClock == InitClock /\ [][NextClock]_vars

SameResult(a, b) == a.threw = b.threw /\ a.out = b.out

(***************************************************************************)
(* C5 (as stated): two calls of the same formatter with identical inputs   *)
(* return identical output, whatever the time between them.                *)
(***************************************************************************)
C5_TwoCallsIdentical ==
    /\ fmtOut.textPrev.called => SameResult(fmtOut.textLast, fmtOut.textPrev)
    /\ fmtOut.typstPrev.called => SameResult(fmtOut.typstLast, fmtOut.typstPrev)

(***************************************************************************)
(* C5 (amended): two calls of formatTextOutput with identical inputs       *)
(* return identical output.  Two calls of generateTypstCode with identical *)
(* inputs both throw or both return; the documents they return are         *)
(* identical exactly when the clock reads the same at both calls, and      *)
(* otherwise differ only in the generation timestamp of the footer.        *)
(***************************************************************************)
\* The document without its timestamp and the two closing brackets after it.
BeforeTimestamp(o) == SubSeq(o.out, 1, Len(o.out) - Len(toLocaleString(o.clock)) - 1)
TimestampOf(o) ==
    SubSeq(o.out, Len(o.out) - Len(toLocaleString(o.clock)), Len(o.out) - 1)

C5_IdenticalUpToTimestamp ==
    /\ fmtOut.textPrev.called => SameResult(fmtOut.textLast, fmtOut.textPrev)
    /\ fmtOut.typstPrev.called =>
          LET a == fmtOut.typstPrev
              b == fmtOut.typstLast
          IN  /\ a.threw = b.threw
              /\ ~a.threw =>
                    /\ (a.clock = b.clock) <=> (a.out = b.out)
                    /\ BeforeTimestamp(a) = BeforeTimestamp(b)
                    /\ TimestampOf(a) = toLocaleString(a.clock)
                    /\ TimestampOf(b) = toLocaleString(b.clock)
                    /\ a.out[Len(a.out)] = b.out[Len(b.out)]

C5_Witness ==
    /\ fmtOut.textPrev.called /\ ~fmtOut.textLast.threw
    /\ fmtOut.typstPrev.called /\ ~fmtOut.typstLast.threw
    /\ fmtOut.typstPrev.clock = 0
    /\ fmtOut.typstLast.clock = 1
    /\ fmtOut.typstPrev.out # fmtOut.typstLast.out
    /\ fmtIn.player = FullPlayer

(***************************************************************************)
(* SpecSections: the formatters on named records while the filter list     *)
(* varies: whole sections disabled, the default list and the all-disabled  *)
(* list with up to MaxToggles entries of one section flipped, and the      *)
(* default list with health and maxHealth disabled.                        *)
(***************************************************************************)
FilterKeys == {DefaultFilters[i].key : i \in 1..Len(DefaultFilters)}

AllOff == [i \in 1..Len(DefaultFilters) |-> Entry(DefaultFilters[i].key, FALSE)]

SectionsOff(secs) ==
    [i \in 1..Len(DefaultFilters) |->
        Entry(DefaultFilters[i].key, \A sec \in secs : i \notin SectionRange(sec))]

Flipped(base, keys) ==
    [i \in 1..Len(base) |->
        IF base[i].key \in keys THEN Entry(base[i].key, ~base[i].enabled) ELSE base[i]]

RECURSIVE SubsetsUpTo(_, _)
SubsetsUpTo(S, n) ==
    IF n = 0 THEN {{}}
    ELSE LET smaller == SubsetsUpTo(S, n - 1)
         IN  smaller \cup {T \cup {x} : T \in smaller, x \in S}

HealthHidden == Flipped(DefaultFilters, {"health", "maxHealth"})

SectionFilterLists ==
    {SectionsOff(secs) : secs \in SUBSET SectionNames}
    \cup {Flipped(base, keys) :
            base \in {DefaultFilters, AllOff},
            keys \in UNION {SubsetsUpTo(SectionKeys(sec), MaxToggles) : sec \in SectionNames}}
    \cup {HealthHidden}

QuietPlayer == [FullPlayer EXCEPT !.truthy = {}]

InitSections ==
    /\ call = NoCall
    /\ ret = NoRet
    /\ NoCommand
    /\ now = 0
    /\ fmtOut = NoFmtOut
    /\ \/ /\ \E fl \in SectionFilterLists : cfg = [DefaultCfg EXCEPT !.playerFieldFilters = fl]
          /\ \E p \in {FullPlayer, QuietPlayer, Steve} : fmtIn = FmtInput(p, 1)
       \/ /\ cfg \in {DefaultCfg, OpenCfg}
          /\ \E i \in 1..Len(TextFlags) :
                fmtIn = FmtInput([FullPlayer EXCEPT !.truthy = {TextFlags[i][1]}], 1)

SpecSections == InitSections /\ [][NextFmt]_vars

\* What the filter list says about a path: its first exact entry, TRUE without one.
FilterSays(key) ==
    LET i == FirstExact(cfg.playerFieldFilters, key)
    IN  IF i = 0 THEN TRUE ELSE cfg.playerFieldFilters[i].enabled

TextReturned == fmtOut.textLast.called /\ ~fmtOut.textLast.threw
TypstReturned == fmtOut.typstLast.called /\ ~fmtOut.typstLast.threw

Count(s, tok) == Cardinality({i \in 1..Len(s) : s[i] = tok})

(***************************************************************************)
(* C8: for a named record, a section all of whose filter entries are       *)
(* disabled has no heading in the text output and no panel in the markup   *)
(* output; every heading is directly followed by a line of its section,    *)
(* the text has no two empty lines in a row and no empty line at its end,  *)
(* every panel has a first row, and the markup has one separator between   *)
(* two panels and no other.                                                *)
(***************************************************************************)
SectionDisabled(sec) == \A k \in SectionKeys(sec) : ~FilterSays(k)

TableOpen == "#table(columns: (auto, 1fr), stroke: none, row-gutter: 4pt,"
GridOpen == "#grid(columns: (1fr, 1fr), gutter: 8pt,"

C8_SectionSuppression ==
    /\ TextReturned =>
          LET out == fmtOut.textLast.out IN
          /\ \A sec \in SectionNames :
                SectionDisabled(sec) => ~Has(out, TextHeadings[sec][1])
          /\ \A i \in 1..Len(out) :
                /\ (\E sec \in SectionNames : out[i] = TextHeadings[sec][1])
                      => (i + 2 <= Len(out) /\ out[i + 1] = "\n" /\ out[i + 2] = Bullet)
                /\ (out[i] = "\n" /\ i + 2 <= Len(out))
                      => ~(out[i + 1] = "\n" /\ out[i + 2] = "\n")
          /\ out[Len(out)] # "\n"
    /\ TypstReturned =>
          LET out == fmtOut.typstLast.out
              titles == {PanelTitles[k] : k \in DOMAIN PanelTitles}
              panels == Cardinality({i \in 1..Len(out) : out[i] \in titles})
          IN
          /\ \A sec \in DOMAIN PanelTitles :
                SectionDisabled(sec) => ~Has(out, PanelTitles[sec])
          /\ \A i \in 1..Len(out) :
                out[i] \in {TableOpen, GridOpen} => (i < Len(out) /\ out[i + 1] = "[")
          /\ Count(out, TableOpen) + Count(out, GridOpen) = panels
          /\ Count(out, PanelSep) = IF panels = 0 THEN 0 ELSE panels - 1

C8_Witness ==
    /\ fmtIn.player = FullPlayer
    /\ cfg.playerFieldFilters = SectionsOff({"game", "env"})
    /\ TextReturned /\ TypstReturned
    /\ ~Has(fmtOut.textLast.out, TextHeadings.game[1])
    /\ Has(fmtOut.textLast.out, TextHeadings.exp[1])
    /\ ~Has(fmtOut.typstLast.out, PanelTitles.env)
    /\ Has(fmtOut.typstLast.out, PanelTitles.pos)

(***************************************************************************)
(* C9: in the text output a status flag's label appears if and only if the *)
(* flag is enabled and true in the record, all of them in one status line; *)
(* the health line appears if and only if health and maxHealth are both    *)
(* enabled.  For the record with health 18, maxHealth 20 and isFlying the  *)
(* default filters give the health line 18/20 and a status line with the   *)
(* flying flag; with health and maxHealth disabled the health line is gone *)
(* and the status line remains.                                            *)
(***************************************************************************)
HealthLine == <<Bullet, "Health: ", "1", "8", "/", "2", "0", " :heart:">>
FlyingLine == <<Bullet, "Status: ", ":eagle: Flying">>

\* The tokens of the line that holds position i.
LineAround(out, i) ==
    LET before == {j \in 1..i : out[j] = "\n"}
        after == {j \in i..Len(out) : out[j] = "\n"}
        lo == IF before = {} THEN 1 ELSE (CHOOSE j \in before : \A k \in before : k <= j) + 1
        hi == IF after = {} THEN Len(out)
              ELSE (CHOOSE j \in after : \A k \in after : j <= k) - 1
    IN  SubSeq(out, lo, hi)

C9_FlagsAndHealthLine ==
    TextReturned =>
        LET out == fmtOut.textLast.out IN
        /\ \A i \in 1..Len(TextFlags) :
              Has(out, TextFlags[i][2])
                <=> (FilterSays(TextFlags[i][1]) /\ TextFlags[i][1] \in fmtIn.player.truthy)
        /\ Count(out, "Status: ") <= 1
        /\ \A i \in 1..Len(out) :
              (\E f \in 1..Len(TextFlags) : out[i] = TextFlags[f][2])
                => IsPrefix(<<Bullet, "Status: ">>, LineAround(out, i))
        /\ Has(out, "Health: ") <=> (FilterSays("health") /\ FilterSays("maxHealth"))
        /\ (fmtIn.player = Steve /\ cfg.playerFieldFilters = DefaultFilters)
              => (Includes(out, HealthLine \o <<"\n">>) /\ Includes(out, FlyingLine))
        /\ (fmtIn.player = Steve /\ cfg.playerFieldFilters = HealthHidden)
              => (~Has(out, "Health: ") /\ Includes(out, FlyingLine))

C9_Witness ==
    /\ fmtIn.player = Steve
    /\ cfg.playerFieldFilters = HealthHidden
    /\ TextReturned
    /\ ~Has(fmtOut.textLast.out, "Health: ")
    /\ Includes(fmtOut.textLast.out, FlyingLine)

(***************************************************************************)
(* The player command (player.ts 654-701), getTypstRenderer and            *)
(* TypstRenderer (player.ts 889-1019).  An invocation is a coroutine: one  *)
(* action runs it from one await to the next.  The outcomes of what lies   *)
(* outside the plugin (the HTTP request, the module import, the Typst      *)
(* compiler, the rasterizer, the presence of the services) are chosen      *)
(* nondeterministically.  What is thrown is an Error with a message.       *)
(***************************************************************************)
maxWaitMs == 10000
intervalMs == 200

ErrNode == "w-node service is not enabled, Typst rendering unavailable"
ErrToImageService == "to-image-service is not enabled, Typst rendering unavailable"
ErrResvgTimeout == "svgToImage.resvg of to-image-service not ready within 10000ms"
ErrImport == "Cannot find module @myriaddreamin/typst-ts-node-compiler"
ErrTypeError == "TypeError: cannot read properties of undefined"
ErrCompile == "typst compilation failed"
ErrResvgNotReady == "toImageService.svgToImage.resvg is not ready yet"
ErrRaster == "resvg failed"
\* what apiClient.get rejects with (player.ts 787-820)
FetchErrors == {"HTTP 500: Internal Server Error", "Request timed out (10000ms)",
                "fetch failed"}

\* h.text(content), h.image(buffer, 'image/png'), h.quote(session.messageId)
TextEl(content) == [type |-> "text", content |-> content]
ImageEl == [type |-> "image", content |-> <<"image/png">>]
QuoteEl == [type |-> "quote", content |-> <<>>]

\* What the action callback returns: a string, h('', children) or the results array.
NoReply == [form |-> "none", content |-> <<>>, children |-> <<>>]
StringReply(content) == [form |-> "string", content |-> content, children |-> <<>>]
FragmentReply(children) == [form |-> "fragment", content |-> <<>>, children |-> children]
ArrayReply(children) == [form |-> "array", content |-> <<>>, children |-> children]

UsageMessage(prefix) ==
    <<":cross: Please give a player name, e.g.: ">> \o ToStr(prefix) \o <<".player Steve">>
QueryFailed == ":cross: Player query failed: "
RenderFailed == "[Typst render failed: "

\* An invocation that has not begun.  failed is the set of positions of the mode
\* list whose image pipeline threw; textThrew tells that formatTextOutput threw,
\* fetchFailed that apiClient.get rejected; fetches, formatCalls and rendererCalls
\* count the calls of apiClient.get, of the two formatters, and of getTypstRenderer
\* and toPng; renderer is the id of the instance getTypstRenderer returned (const
\* renderer of the inner try, 0 outside it).
IdleInv ==
    [pc |-> "idle", name |-> UndefinedStr, modeArg |-> Undefined, messageId |-> FALSE,
     data |-> NullPlayer, modes |-> <<>>, k |-> 1, results |-> <<>>, reply |-> NoReply,
     fetches |-> 0, waited |-> 0, failed |-> {}, textThrew |-> FALSE,
     fetchFailed |-> FALSE, formatCalls |-> 0, rendererCalls |-> 0, renderer |-> 0]

\* An outer catch that asks the server again.
OuterCatchRetry(s, message) == [s EXCEPT !.pc = "fetching", !.fetches = @ + 1]

\* catch (error) { return ... error.message } of the outer try
OuterCatch(s, message) ==
    [s EXCEPT !.pc = "done", !.reply = StringReply(<<QueryFailed, message>>)]

\* An inner catch that lets the error through to the outer try.
InnerCatchRethrow(s, message) == OuterCatch(s, message)

\* catch (err) { results.push(h.text(`[... ${err.message}]`)) }, then the next mode
InnerCatch(s, message) ==
    [s EXCEPT !.pc = "loop", !.k = @ + 1, !.renderer = 0,
              !.results = Append(@, TextEl(<<RenderFailed, message, "]">>))]

\* A throw inside the inner try, at position s.k of the mode list.
ThrowInImage(s, message) ==
    InnerCatch([s EXCEPT !.failed = @ \cup {s.k}], message)

\* new TypstRenderer(ctx, logger, cfg)
NewRenderer(shared) ==
    [exists |-> TRUE, initialized |-> FALSE, typst |-> FALSE,
     id |-> shared.constructed + 1, constructed |-> shared.constructed + 1,
     inits |-> shared.inits]

\* return this.initialized && !!this.typst
isReady(renderer) == renderer.initialized /\ renderer.typst

\* A renderer made anew whenever the one at hand is not ready.
ensureSharedRendererReady(shared) == IF isReady(shared) THEN shared ELSE NewRenderer(shared)

\* if (!sharedRenderer) { sharedRenderer = new TypstRenderer(ctx, logger, cfg) }
ensureSharedRenderer(shared) == IF shared.exists THEN shared ELSE NewRenderer(shared)

\* if (!sharedRenderer.isReady()) { await sharedRenderer.init() }: the call of init().
\* The count of the calls stops at MaxInits.
awaitInit(renderer) ==
    IF isReady(renderer) THEN renderer
    ELSE [renderer EXCEPT !.inits = IF @ < MaxInits THEN @ + 1 ELSE @]

\* The test of the polling loop of init() and what follows it up to the next await;
\* waited is a local of init() and is gone once the loop is left.
PollStep(s) ==
    IF ~ctx.resvg /\ s.waited < maxWaitMs THEN [s EXCEPT !.pc = "sleeping"]
    ELSE IF ~ctx.resvg THEN ThrowInImage([s EXCEPT !.waited = 0], ErrResvgTimeout)
    ELSE [s EXCEPT !.pc = "importing", !.waited = 0]

\* init() up to its first await
InitStart(s) ==
    IF ~ctx.node THEN ThrowInImage(s, ErrNode)
    ELSE IF ~ctx.toImageService THEN ThrowInImage(s, ErrToImageService)
    ELSE PollStep([s EXCEPT !.waited = 0])

CmdNames == {UndefinedStr, Str(<<>>), Str(DefaultQuery)}
CmdModeArgs == {Undefined, [def |-> TRUE, val |-> "text"], [def |-> TRUE, val |-> "image"]}
\* a record whose pos has no coordinates: toFixed throws where pos is shown
BrokenPosPlayer == [FullPlayer EXCEPT !.pos = [NoPos EXCEPT !.def = TRUE]]
CmdRecords == {FullPlayer, NullPlayer, BrokenPosPlayer}
CtxStates ==
    {c \in [node : BOOLEAN, toImageService : BOOLEAN, resvg : BOOLEAN] :
        c.resvg => c.toImageService}

\* The user sends the command: if (!name) return usage; else await apiClient.get(...)
\* The name and the mode option are drawn from names and modeArgs.
InvokeWith(i, names, modeArgs) ==
    /\ inv[i].pc = "idle"
    /\ \E nm \in names, m \in modeArgs :
          LET s == [IdleInv EXCEPT !.name = nm, !.modeArg = m]
          IN  inv' = [inv EXCEPT ![i] =
                        IF ~nm.def \/ nm.val = <<>>
                        THEN [s EXCEPT !.pc = "done",
                                       !.reply = StringReply(UsageMessage(reg.prefix))]
                        ELSE [s EXCEPT !.pc = "fetching", !.fetches = @ + 1]]
    /\ UNCHANGED <<api, call, ret, cfg, now, fmtIn, fmtOut, sharedRenderer, ctx, reg>>

Invoke(i) == InvokeWith(i, CmdNames, CmdModeArgs)

\* get resolves: const modes = resolveOutputModes(options.mode, cfg); results = []
\* The record is drawn from records.
FetchResolvesWith(i, records) ==
    /\ inv[i].pc = "fetching"
    /\ \E d \in records :
          inv' = [inv EXCEPT ![i] =
                    [@ EXCEPT !.pc = "loop", !.data = d, !.k = 1, !.results = <<>>,
                              !.modes = resolveOutputModes(inv[i].modeArg, cfg)]]
    /\ UNCHANGED <<api, call, ret, cfg, now, fmtIn, fmtOut, sharedRenderer, ctx, reg>>

FetchResolves(i) == FetchResolvesWith(i, CmdRecords)

\* get rejects: the outer catch
FetchRejects(i) ==
    /\ inv[i].pc = "fetching"
    /\ \E e \in FetchErrors :
          inv' = [inv EXCEPT ![i] = OuterCatch([@ EXCEPT !.fetchFailed = TRUE], e)]
    /\ UNCHANGED <<api, call, ret, cfg, now, fmtIn, fmtOut, sharedRenderer, ctx, reg>>

\* mode === 'text': results.push(h.text(formatTextOutput(data, name, cfg, label)))
TextMode(i) ==
    LET s == inv[i]
        text == formatTextOutput(s.data, s.name.val, cfg, reg.label)
    IN  /\ s.pc = "loop"
        /\ s.k <= Len(s.modes)
        /\ s.modes[s.k] = "text"
        /\ inv' = [inv EXCEPT ![i] =
                     IF text.threw
                     THEN OuterCatch([s EXCEPT !.textThrew = TRUE, !.formatCalls = @ + 1],
                                     ErrTypeError)
                     ELSE [s EXCEPT !.k = @ + 1, !.formatCalls = @ + 1,
                                    !.results = Append(@, TextEl(text.out))]]
        /\ UNCHANGED <<api, call, ret, cfg, now, fmtIn, fmtOut, sharedRenderer, ctx, reg>>

\* mode === 'typst-image': getTypstRenderer up to its first await
ImageMode(i) ==
    LET s == [inv[i] EXCEPT !.rendererCalls = @ + 1]
        renderer == ensureSharedRenderer(sharedRenderer)
    IN  /\ s.pc = "loop"
        /\ s.k <= Len(s.modes)
        /\ s.modes[s.k] = "typst-image"
        /\ sharedRenderer' = awaitInit(renderer)
        /\ inv' = [inv EXCEPT ![i] =
                     IF isReady(renderer)
                     THEN [s EXCEPT !.pc = "gotRenderer", !.renderer = renderer.id]
                     ELSE InitStart(s)]
        /\ UNCHANGED <<api, call, ret, cfg, now, fmtIn, fmtOut, ctx, reg>>

\* The timer of the polling loop fires: waited += intervalMs, and the test again.
PollWake(i) ==
    /\ inv[i].pc = "sleeping"
    /\ inv' = [inv EXCEPT ![i] = PollStep([@ EXCEPT !.waited = @ + intervalMs])]
    /\ UNCHANGED <<api, call, ret, cfg, now, fmtIn, fmtOut, sharedRenderer, ctx, reg>>

\* safeImport resolves: this.typst = module; this.initialized = true
ImportResolves(i) ==
    /\ inv[i].pc = "importing"
    /\ sharedRenderer' = [sharedRenderer EXCEPT !.typst = TRUE, !.initialized = TRUE]
    /\ inv' = [inv EXCEPT ![i] = [@ EXCEPT !.pc = "gotRenderer",
                                            !.renderer = sharedRenderer.id]]
    /\ UNCHANGED <<api, call, ret, cfg, now, fmtIn, fmtOut, ctx, reg>>

ImportRejects(i) ==
    /\ inv[i].pc = "importing"
    /\ inv' = [inv EXCEPT ![i] = ThrowInImage(@, ErrImport)]
    /\ UNCHANGED <<api, call, ret, cfg, now, fmtIn, fmtOut, sharedRenderer, ctx, reg>>

\* buildTypstTheme, generateTypstCode, and toPng up to its await: toSvg compiles
\* (getCompiler reads ctx.toImageService.fontManagement), then the resvg test.
Render(i) ==
    LET s == [inv[i] EXCEPT !.formatCalls = @ + 1]
        t == [s EXCEPT !.rendererCalls = @ + 1]
        typstCode == generateTypstCode(s.data, s.name.val, buildTypstTheme(cfg), cfg,
                                       reg.label, now)
    IN  /\ s.pc = "gotRenderer"
        /\ \E compiled \in BOOLEAN :
              inv' = [inv EXCEPT ![i] =
                        IF typstCode.threw THEN ThrowInImage(s, ErrTypeError)
                        ELSE IF ~ctx.toImageService THEN ThrowInImage(t, ErrTypeError)
                        ELSE IF ~compiled THEN ThrowInImage(t, ErrCompile)
                        ELSE IF ~ctx.resvg THEN ThrowInImage(t, ErrResvgNotReady)
                        ELSE [t EXCEPT !.pc = "rasterizing"]]
        /\ UNCHANGED <<api, call, ret, cfg, now, fmtIn, fmtOut, sharedRenderer, ctx, reg>>

\* resvg resolves: results.push(h.image(pngBuffer, 'image/png'))
RasterResolves(i) ==
    /\ inv[i].pc = "rasterizing"
    /\ inv' = [inv EXCEPT ![i] =
                 [@ EXCEPT !.pc = "loop", !.k = @ + 1, !.renderer = 0,
                           !.results = Append(@, ImageEl)]]
    /\ UNCHANGED <<api, call, ret, cfg, now, fmtIn, fmtOut, sharedRenderer, ctx, reg>>

RasterRejects(i) ==
    /\ inv[i].pc = "rasterizing"
    /\ inv' = [inv EXCEPT ![i] = ThrowInImage(@, ErrRaster)]
    /\ UNCHANGED <<api, call, ret, cfg, now, fmtIn, fmtOut, sharedRenderer, ctx, reg>>

\* After the loop: the quote in front if asked for and the message has an id
\* (session.messageId is read here and nowhere else, so it is drawn here).
Finish(i) ==
    LET s == inv[i]
    IN  /\ s.pc = "loop"
        /\ s.k > Len(s.modes)
        /\ \E mid \in BOOLEAN :
              inv' = [inv EXCEPT ![i] =
                        [s EXCEPT !.pc = "done", !.messageId = mid,
                                  !.reply = IF cfg.quoteCommandReplies /\ mid
                                            THEN FragmentReply(<<QuoteEl>> \o s.results)
                                            ELSE ArrayReply(s.results)]]
        /\ UNCHANGED <<api, call, ret, cfg, now, fmtIn, fmtOut, sharedRenderer, ctx, reg>>

\* The reply is sent; the next command of this user can come.
Deliver(i) ==
    /\ inv[i].pc = "done"
    /\ inv' = [inv EXCEPT ![i] = IdleInv]
    /\ UNCHANGED <<api, call, ret, cfg, now, fmtIn, fmtOut, sharedRenderer, ctx, reg>>

\* A service of the context starts or stops.
ServiceChange ==
    /\ \E c \in CtxStates : c.node = ctx.node /\ c # ctx /\ ctx' = c
    /\ UNCHANGED <<api, call, ret, cfg, now, fmtIn, fmtOut, inv, sharedRenderer, reg>>

\* apply() registers the command with neither prefix nor label (player.ts 1075);
\* a caller that gives both is the other case.
Registrations == {NoReg, [prefix |-> Str(<<"mcinfo">>), label |-> DefaultLabel]}

\* Every field shown, with every mode list; with the lists of both modes, also
\* without the quote, and with the default filter list.
BothModes == {<<"text", "typst-image">>, <<"typst-image", "text">>}
CmdCfgs ==
    {[OpenCfg EXCEPT !.defaultOutputModes = ml] : ml \in ModeLists}
    \cup {[OpenCfg EXCEPT !.defaultOutputModes = ml, !.quoteCommandReplies = FALSE] :
            ml \in BothModes}
    \cup {[DefaultCfg EXCEPT !.defaultOutputModes = ml] : ml \in BothModes}

InitCmd ==
    /\ call = NoCall
    /\ ret = NoRet
    /\ now = 0
    /\ fmtIn = NoFmtIn
    /\ fmtOut = NoFmtOut
    /\ cfg \in CmdCfgs
    /\ reg \in Registrations
    /\ ctx \in CtxStates
    /\ sharedRenderer = NoRenderer
    /\ inv = <<IdleInv>>
    /\ api = NoGet

NextCmd ==
    \/ \E i \in DOMAIN inv : Invoke(i)
    \/ \E i \in DOMAIN inv : FetchResolves(i)
    \/ \E i \in DOMAIN inv : FetchRejects(i)
    \/ \E i \in DOMAIN inv : TextMode(i)
    \/ \E i \in DOMAIN inv : ImageMode(i)
    \/ \E i \in DOMAIN inv : PollWake(i)
    \/ \E i \in DOMAIN inv : ImportResolves(i)
    \/ \E i \in DOMAIN inv : ImportRejects(i)
    \/ \E i \in DOMAIN inv : Render(i)
    \/ \E i \in DOMAIN inv : RasterResolves(i)
    \/ \E i \in DOMAIN inv : RasterRejects(i)
    \/ \E i \in DOMAIN inv : Finish(i)
    \/ \E i \in DOMAIN inv : Deliver(i)
    \/ ServiceChange

SpecCmd == InitCmd /\ [][NextCmd]_vars

\* The elements of a reply that stand for a mode: all of them, but for the quote
\* that a fragment starts with.
Renderings(reply) ==
    IF reply.form = "fragment" THEN Tail(reply.children) ELSE reply.children

ModesOf(s) == {s.modes[k] : k \in 1..Len(s.modes)}

\* A finished request for both modes in which the image pipeline threw and the
\* text formatter returned.
ImageFailedRequest(s) ==
    /\ s.pc = "done"
    /\ ModesOf(s) = {"text", "typst-image"}
    /\ s.failed # {}
    /\ ~s.textThrew

IsFailureNote(el) ==
    /\ el.type = "text"
    /\ Len(el.content) = 3
    /\ el.content[1] = RenderFailed
    /\ el.content[3] = "]"

\* Element k of els is what mode k of the request s must have given.
ElementOfMode(s, els, k) ==
    IF s.modes[k] = "text"
    THEN els[k] = TextEl(formatTextOutput(s.data, s.name.val, cfg, reg.label).out)
    ELSE IF k \in s.failed THEN IsFailureNote(els[k])
    ELSE els[k] = ImageEl

C11_FetchFailureNoRetryNoRender ==
    \A i \in DOMAIN inv :
        inv[i].fetchFailed =>
            /\ inv[i].pc = "done"
            /\ inv[i].fetches = 1
            /\ inv[i].formatCalls = 0
            /\ inv[i].rendererCalls = 0
            /\ inv[i].results = <<>>
            /\ \E e \in FetchErrors : inv[i].reply = StringReply(<<QueryFailed, e>>)

C11_Witness ==
    \E i \in DOMAIN inv :
        /\ inv[i].fetchFailed
        /\ inv[i].fetches = 1
        /\ inv[i].reply = StringReply(<<QueryFailed, "HTTP 500: Internal Server Error">>)
        /\ cfg.defaultOutputModes = <<"text", "typst-image">>

(***************************************************************************)
(* createApiClient.get (player.ts 787-820).  One call: the timer is armed  *)
(* and fetch is awaited; when fetch resolves (the response headers are     *)
(* there) the timer is cleared and the body is awaited by response.json(). *)
(* The network answers or stays silent as it likes; the clock ticks, and   *)
(* an armed timer whose time has come fires and aborts the controller.     *)
(***************************************************************************)
ErrTimeout == "Request timed out (cfg.timeout ms)"
ErrHttp == "HTTP 500: Internal Server Error"
ErrNetwork == "fetch failed"
ErrJson == "Unexpected token < in JSON"

InFlight == {"fetching", "reading"}
Settled == {"resolved", "rejected"}

\* catch (error) { clearTimeout(timeoutId); if (error.name === 'AbortError')
\* throw new Error(timeout); throw error }
GetCatch(a, name, message) ==
    [a EXCEPT !.pc = "rejected",
              !.timer = IF @ = "armed" THEN "cleared" ELSE @,
              !.error = IF name = "AbortError" THEN ErrTimeout ELSE message]

\* const controller = new AbortController(); const timeoutId = setTimeout(...);
\* await fetch(url, { signal })
CallGet ==
    /\ api.pc = "idle"
    /\ api' = [api EXCEPT !.pc = "fetching", !.timer = "armed", !.aborted = FALSE,
                          !.elapsed = 0, !.error = "", !.fetchCalls = 1]
    /\ UNCHANGED <<call, ret, cfg, now, fmtIn, fmtOut, inv, sharedRenderer, ctx, reg>>

\* A tick of the clock while the call is under way.
GetTick ==
    /\ api.pc \in InFlight
    /\ api.elapsed < api.timeout + MaxOverrun
    /\ api' = [api EXCEPT !.elapsed = @ + 1]
    /\ UNCHANGED <<call, ret, cfg, now, fmtIn, fmtOut, inv, sharedRenderer, ctx, reg>>

\* The timer's callback: () => controller.abort()
TimerFires ==
    /\ api.timer = "armed"
    /\ api.elapsed >= api.timeout
    /\ api' = [api EXCEPT !.timer = "fired", !.aborted = TRUE]
    /\ UNCHANGED <<call, ret, cfg, now, fmtIn, fmtOut, inv, sharedRenderer, ctx, reg>>

\* fetch rejects with an AbortError once the signal is aborted.
FetchAborted ==
    /\ api.pc = "fetching"
    /\ api.aborted
    /\ api' = GetCatch(api, "AbortError", "This operation was aborted")
    /\ UNCHANGED <<call, ret, cfg, now, fmtIn, fmtOut, inv, sharedRenderer, ctx, reg>>

\* fetch resolves: clearTimeout(timeoutId); if (!response.ok) throw new Error(HTTP ...);
\* else await response.json()
HeadersArrive ==
    /\ api.pc = "fetching"
    /\ ~api.aborted
    /\ \E ok \in BOOLEAN :
          LET cleared == [api EXCEPT !.timer = IF @ = "armed" THEN "cleared" ELSE @]
          IN  api' = IF ok THEN [cleared EXCEPT !.pc = "reading"]
                     ELSE GetCatch(cleared, "Error", ErrHttp)
    /\ UNCHANGED <<call, ret, cfg, now, fmtIn, fmtOut, inv, sharedRenderer, ctx, reg>>

\* fetch rejects for a reason of the network.
FetchFails ==
    /\ api.pc = "fetching"
    /\ ~api.aborted
    /\ api' = GetCatch(api, "TypeError", ErrNetwork)
    /\ UNCHANGED <<call, ret, cfg, now, fmtIn, fmtOut, inv, sharedRenderer, ctx, reg>>

\* response.json() resolves: return data
BodyParsed ==
    /\ api.pc = "reading"
    /\ api' = [api EXCEPT !.pc = "resolved"]
    /\ UNCHANGED <<call, ret, cfg, now, fmtIn, fmtOut, inv, sharedRenderer, ctx, reg>>

\* response.json() rejects: the body is no JSON, or the connection broke.
BodyFails ==
    /\ api.pc = "reading"
    /\ \E e \in {<<"SyntaxError", ErrJson>>, <<"TypeError", ErrNetwork>>} :
          api' = GetCatch(api, e[1], e[2])
    /\ UNCHANGED <<call, ret, cfg, now, fmtIn, fmtOut, inv, sharedRenderer, ctx, reg>>

\* The caller has the outcome; the next call of get can come.
GetReturns ==
    /\ api.pc \in Settled
    /\ api' = [NoGet EXCEPT !.timeout = api.timeout]
    /\ UNCHANGED <<call, ret, cfg, now, fmtIn, fmtOut, inv, sharedRenderer, ctx, reg>>

InitGet ==
    /\ call = NoCall
    /\ ret = NoRet
    /\ cfg = DefaultCfg
    /\ now = 0
    /\ fmtIn = NoFmtIn
    /\ fmtOut = NoFmtOut
    /\ inv = <<>>
    /\ sharedRenderer = NoRenderer
    /\ ctx = NoCtx
    /\ reg = NoReg
    /\ \E t \in 1..MaxTimeout : api = [NoGet EXCEPT !.timeout = t]

NextGet ==
    \/ CallGet
    \/ GetTick
    \/ TimerFires
    \/ FetchAborted
    \/ HeadersArrive
    \/ FetchFails
    \/ BodyParsed
    \/ BodyFails
    \/ GetReturns

\* The clock goes on, a timer whose time has come fires, and an aborted fetch
\* rejects; the network owes nothing.
SpecGet ==
    /\ InitGet
    /\ [][NextGet]_vars
    /\ WF_vars(GetTick)
    /\ WF_vars(TimerFires)
    /\ WF_vars(FetchAborted)

(***************************************************************************)
(* C12 as stated: the timer is never armed once get has settled, a call    *)
(* still under way when cfg.timeout has elapsed is aborted and rejected    *)
(* with the timeout error unless it settles otherwise first, and so every  *)
(* call of get settles in the end.                                         *)
(***************************************************************************)
C12_TimeoutSettlesEveryGet ==
    /\ [](api.pc \in Settled => api.timer # "armed")
    /\ (api.pc \in InFlight /\ api.elapsed >= api.timeout) ~> (api.pc \in Settled)
    /\ (api.pc \in InFlight) ~> (api.pc \in Settled)

\* The headers came in time, the body never comes, and no timer is left to abort.
C12_Witness ==
    /\ api.pc = "reading"
    /\ api.timer = "cleared"
    /\ ~api.aborted
    /\ api.elapsed = api.timeout + MaxOverrun

\* What does hold of get: no timer armed after it settled ...
C12_TimerDisarmedOnSettle == api.pc \in Settled => api.timer # "armed"

\* ... and the wait for the response headers ends, by the timeout if by nothing else.
C12_HeadersPhaseEnds == (api.pc = "fetching") ~> (api.pc # "fetching")

\* A rejection with the timeout error comes from the timer and from nothing else.
C12_TimeoutErrorOnlyFromTimer ==
    (api.pc = "rejected" /\ api.error = ErrTimeout) => (api.timer = "fired" /\ api.aborted)

(***************************************************************************)
(* SpecRenderer: MaxInv invocations of the command in flight at once, all  *)
(* asking for the image, interleaved at every await.                       *)
(***************************************************************************)
InitRenderer ==
    /\ call = NoCall
    /\ ret = NoRet
    /\ now = 0
    /\ fmtIn = NoFmtIn
    /\ fmtOut = NoFmtOut
    /\ cfg = [OpenCfg EXCEPT !.defaultOutputModes = <<"typst-image">>]
    /\ reg = [prefix |-> Str(<<"mcinfo">>), label |-> DefaultLabel]
    /\ ctx \in CtxStates
    /\ sharedRenderer = NoRenderer
    /\ inv = [i \in 1..MaxInv |-> IdleInv]
    /\ api = NoGet

\* The steps of the command, each invocation with the same name, no mode option
\* and the same record.
NextRenderer ==
    \/ \E i \in DOMAIN inv : InvokeWith(i, {Str(DefaultQuery)}, {Undefined})
    \/ \E i \in DOMAIN inv : FetchResolvesWith(i, {FullPlayer})
    \/ \E i \in DOMAIN inv : FetchRejects(i)
    \/ \E i \in DOMAIN inv : ImageMode(i)
    \/ \E i \in DOMAIN inv : PollWake(i)
    \/ \E i \in DOMAIN inv : ImportResolves(i)
    \/ \E i \in DOMAIN inv : ImportRejects(i)
    \/ \E i \in DOMAIN inv : Render(i)
    \/ \E i \in DOMAIN inv : RasterResolves(i)
    \/ \E i \in DOMAIN inv : RasterRejects(i)
    \/ \E i \in DOMAIN inv : Finish(i)
    \/ \E i \in DOMAIN inv : Deliver(i)
    \/ ServiceChange

SpecRenderer == InitRenderer /\ [][NextRenderer]_vars

(***************************************************************************)
(* C13: however many invocations run and however they interleave, the      *)
(* constructor of TypstRenderer is called at most once, and every call of  *)
(* getTypstRenderer that returns, returns that one instance.               *)
(***************************************************************************)
C13_OneRendererInstance ==
    /\ sharedRenderer.constructed <= 1
    /\ sharedRenderer.exists <=> sharedRenderer.constructed = 1
    /\ \A i \in DOMAIN inv :
          inv[i].pc \in {"gotRenderer", "rasterizing"} =>
              (inv[i].renderer = 1 /\ sharedRenderer.id = 1)

\* Two invocations hold the renderer at once, and both hold the same one.
C13_Witness ==
    /\ sharedRenderer.constructed = 1
    /\ \E i, j \in DOMAIN inv :
          /\ i # j
          /\ inv[i].pc = "rasterizing" /\ inv[i].renderer = 1
          /\ inv[j].pc = "gotRenderer" /\ inv[j].renderer = 1


\* ---------------------------------------------------------------------------
\* Sections of the text output against panels of the markup output
\* ---------------------------------------------------------------------------

\* The sections whose heading formatTextOutput pushed.
HeadingSections ==
    {sec \in DOMAIN TextHeadings : Has(fmtOut.textLast.out, TextHeadings[sec][1])}

\* The sections whose panel generateTypstCode pushed; the generator has no
\* items panel, so "items" is never among them.
PanelSections ==
    {sec \in DOMAIN PanelTitles : Has(fmtOut.typstLast.out, PanelTitles[sec])}

\* C14: for the same record and filter list, the markup output has a panel for
\* exactly the sections for which the text output has a heading.
C14_SameSections ==
    (TextReturned /\ TypstReturned) => HeadingSections = PanelSections

\* Both formatters returned and the text output has an items section.
C14_Witness ==
    /\ TextReturned
    /\ TypstReturned
    /\ "items" \in HeadingSections
    /\ "basic" \in PanelSections

\* The sections on which the two formatters agree for every input explored.
C14_AgreedSections ==
    (TextReturned /\ TypstReturned) =>
        \A sec \in {"exp", "env", "device"} :
            (sec \in HeadingSections) <=> (sec \in PanelSections)


\* ---------------------------------------------------------------------------
\* escapeTypstText on newline, carriage return and tab
\* ---------------------------------------------------------------------------

\* What one character of the input becomes when the claim's wording is
\* followed: each of the three line characters one space.
SpacedChar(c) ==
    IF c \in SpecialChars THEN Esc(c)
    ELSE IF c \in LineChars THEN <<" ">>
    ELSE <<c>>

\* What one character of the input becomes in the code: newline and tab one
\* space, carriage return nothing.
CollapsedChar(c) ==
    IF c \in SpecialChars THEN Esc(c)
    ELSE IF c \in {"\n", "\t"} THEN <<" ">>
    ELSE IF c = "\r" THEN <<>>
    ELSE <<c>>

\* C15 (as stated): escapeTypstText replaces every newline, carriage return and
\* tab by one space: the result has none of the three and is the input with one
\* space in the place of each of them.
C15_EachLineCharOneSpace ==
    Returned("escapeTypstText") =>
        /\ NoLineChars(ret.str)
        /\ ret.str = Concat([i \in 1..Len(call.str) |-> SpacedChar(call.str[i])])

\* C15 (amended): the result has no newline, carriage return or tab; each
\* newline and each tab of the input is replaced by one space and each carriage
\* return is removed without a replacement, none of them backslash-escaped.
C15_LineCharsCollapsed ==
    Returned("escapeTypstText") =>
        /\ NoLineChars(ret.str)
        /\ ret.str = Concat([i \in 1..Len(call.str) |-> CollapsedChar(call.str[i])])

\* A carriage return between two letters, and a CR LF pair, have been escaped.
C15_Witness ==
    /\ Returned("escapeTypstText")
    /\ \/ call.str = <<"a", "\r", "a">> /\ ret.str = <<"a", "a">>
       \/ call.str = <<"\r", "\n", "\t">> /\ ret.str = <<" ", " ">>


\* ---------------------------------------------------------------------------
\* Lines that depend on more than one filter path
\* ---------------------------------------------------------------------------

\* Some line that starts with one of the keys carries a parenthesised label.
LabelledLine(out, keys) ==
    \E i \in 1..Len(out) : out[i] \in keys /\ Has(LineAround(out, i), " (")

DeathOrRespawn == {"Last death: ", "Respawn point: "}

\* C16: in both formatters a line is included only if every filter path it
\* depends on is enabled: the biome line needs 'biome' and 'biome.name', the
\* standing-on line needs 'standingOn' and 'standingOn.name', and the last-death
\* and respawn lines carry no dimension label when the dimension path is
\* disabled.
C16_EveryPathNeeded ==
    /\ TextReturned =>
          LET out == fmtOut.textLast.out IN
          /\ Has(out, "Biome: ") => (FilterSays("biome") /\ FilterSays("biome.name"))
          /\ Has(out, "Standing on: ")
                => (FilterSays("standingOn") /\ FilterSays("standingOn.name"))
          /\ LabelledLine(out, DeathOrRespawn) => FilterSays("pos.dimId")
    /\ TypstReturned =>
          LET out == fmtOut.typstLast.out IN
          /\ Has(out, "Biome") => (FilterSays("biome") /\ FilterSays("biome.name"))
          /\ Has(out, "Standing on")
                => (FilterSays("standingOn") /\ FilterSays("standingOn.name"))

\* The biome line of both outputs while 'biome' is disabled and only
\* 'biome.name' is enabled.
C16_Witness ==
    /\ TextReturned
    /\ TypstReturned
    /\ ~FilterSays("biome")
    /\ FilterSays("biome.name")
    /\ Has(fmtOut.textLast.out, "Biome: ")
    /\ Has(fmtOut.typstLast.out, "Biome")

\* What the code guarantees: the biome and standing-on lines are shown exactly
\* when the object is present and the parent path or the name path is enabled.
C16_EitherPathSuffices ==
    /\ TextReturned =>
          LET out == fmtOut.textLast.out IN
          /\ Has(out, "Biome: ")
                <=> (fmtIn.player.biome.def /\ (FilterSays("biome") \/ FilterSays("biome.name")))
          /\ Has(out, "Standing on: ")
                <=> (fmtIn.player.standingOn.def
                       /\ (FilterSays("standingOn") \/ FilterSays("standingOn.name")))
    /\ TypstReturned =>
          LET out == fmtOut.typstLast.out IN
          /\ Has(out, "Biome")
                <=> (fmtIn.player.biome.def /\ (FilterSays("biome") \/ FilterSays("biome.name")))
          /\ Has(out, "Standing on")
                <=> (fmtIn.player.standingOn.def
                       /\ (FilterSays("standingOn") \/ FilterSays("standingOn.name")))


\* ---------------------------------------------------------------------------
\* The device section: parent path and child paths
\* ---------------------------------------------------------------------------

\* The device lines: child path, label of the text line, key of the markup row.
DeviceLines ==
    << <<"device.os", "OS: ", "OS">>,
       <<"device.inputMode", "Input mode: ", "Input mode">>,
       <<"device.ip", "IP address: ", "IP address">>,
       <<"device.clientId", "Client ID: ", "Client ID">>,
       <<"device.serverAddress", "Server address: ", "Server address">>,
       <<"device.avgPing", "Average ping: ", "Average ping">>,
       <<"device.lastPing", "Last ping: ", "Last ping">>,
       <<"device.avgPacketLoss", "Average packet loss: ", "Average packet loss">>,
       <<"device.lastPacketLoss", "Last packet loss: ", "Last packet loss">> >>

\* The child paths for which generateTypstCode has a row.
TypstDeviceRows ==
    {"device.os", "device.inputMode", "device.ip", "device.serverAddress",
     "device.avgPing", "device.lastPing", "device.avgPacketLoss"}

NoDeviceText(out) ==
    /\ ~Has(out, TextHeadings.device[1])
    /\ \A l \in 1..Len(DeviceLines) : ~Has(out, DeviceLines[l][2])

NoDeviceTypst(out) ==
    /\ ~Has(out, PanelTitles.device)
    /\ \A l \in 1..Len(DeviceLines) : ~Has(out, DeviceLines[l][3])

\* C17: with 'device' disabled neither output has the device heading or panel
\* or any device line, whatever the child paths say; with 'device' enabled
\* (and a device in the record) each device line appears in each output exactly
\* when its child path is enabled.
C17_DeviceGate ==
    /\ TextReturned =>
          LET out == fmtOut.textLast.out IN
          /\ ~FilterSays("device") => NoDeviceText(out)
          /\ (FilterSays("device") /\ fmtIn.player.device.def) =>
                \A l \in 1..Len(DeviceLines) :
                    Has(out, DeviceLines[l][2]) <=> FilterSays(DeviceLines[l][1])
    /\ TypstReturned =>
          LET out == fmtOut.typstLast.out IN
          /\ ~FilterSays("device") => NoDeviceTypst(out)
          /\ (FilterSays("device") /\ fmtIn.player.device.def) =>
                \A l \in 1..Len(DeviceLines) :
                    Has(out, DeviceLines[l][3]) <=> FilterSays(DeviceLines[l][1])

\* Both formatters returned for a record with a device, 'device' and
\* 'device.lastPacketLoss' enabled: the text output has the line.
C17_Witness ==
    /\ TextReturned
    /\ TypstReturned
    /\ fmtIn.player.device.def
    /\ FilterSays("device")
    /\ FilterSays("device.lastPacketLoss")
    /\ Has(fmtOut.textLast.out, "Last packet loss: ")
    /\ Has(fmtOut.typstLast.out, PanelTitles.device)

\* What the code guarantees: the parent path gates the section in both outputs,
\* the text output follows every child path, the markup output follows the
\* child paths it has a row for and never shows the other two.
C17_ParentGates ==
    /\ TextReturned =>
          LET out == fmtOut.textLast.out IN
          /\ (~FilterSays("device") \/ ~fmtIn.player.device.def) => NoDeviceText(out)
          /\ (FilterSays("device") /\ fmtIn.player.device.def) =>
                \A l \in 1..Len(DeviceLines) :
                    Has(out, DeviceLines[l][2]) <=> FilterSays(DeviceLines[l][1])
    /\ TypstReturned =>
          LET out == fmtOut.typstLast.out IN
          /\ (~FilterSays("device") \/ ~fmtIn.player.device.def) => NoDeviceTypst(out)
          /\ (FilterSays("device") /\ fmtIn.player.device.def) =>
                \A l \in 1..Len(DeviceLines) :
                    Has(out, DeviceLines[l][3])
                        <=> (FilterSays(DeviceLines[l][1])
                               /\ DeviceLines[l][1] \in TypstDeviceRows)

\* A child path is enabled while 'device' is disabled, and both formatters
\* returned.
C17_ChildWithoutParent ==
    /\ TextReturned
    /\ TypstReturned
    /\ fmtIn.player.device.def
    /\ ~FilterSays("device")
    /\ FilterSays("device.ip")


(***************************************************************************)
(* SpecVariants: generateTypstCode called for a query the server does not  *)
(* know and then, with the same theme and label, for a record it knows.    *)
(* fmtOut.typstPrev is the not-found document, fmtOut.typstLast the        *)
(* success document.                                                       *)
(***************************************************************************)
VariantColors == {Str(<<"#", "0", "0", "0">>), Str(<<"r", "e", "d">>), UndefinedStr}

VariantCfgs ==
    {[base EXCEPT !.typstPageBgColor = bg, !.typstStatsTextColor = st,
                  !.typstFontFamily = ff] :
        base \in {DefaultCfg, OpenCfg}, bg \in VariantColors, st \in VariantColors,
        ff \in {UndefinedStr, Str(<<"Arial">>)}}

InitVariants ==
    /\ call = NoCall
    /\ ret = NoRet
    /\ NoCommand
    /\ cfg \in VariantCfgs
    /\ now = 0
    /\ \E p \in NoNamePlayers : fmtIn = FmtInput(p, 2)
    /\ fmtOut = NoFmtOut

\* The next query names a player the server knows.
KnownPlayer ==
    /\ fmtOut.typstLast.called
    /\ ~fmtOut.typstPrev.called
    /\ Nameless(fmtIn.player)
    /\ \E p \in {FullPlayer, QuietPlayer} : fmtIn' = [fmtIn EXCEPT !.player = p]
    /\ UNCHANGED <<cmdVars, call, ret, cfg, now, fmtOut>>

NextVariants == CallGenerateTypstCode \/ KnownPlayer \/ Tick

SpecVariants == InitVariants /\ [][NextVariants]_vars

\* Position of the first token tok of a document.
IndexOf(out, tok) == CHOOSE i \in 1..Len(out) : out[i] = tok /\ \A j \in 1..(i - 1) : out[j] # tok

HeaderStart == "#align(center)[#block(fill: "
FooterStart == "#align(center)[#text(size: 8pt, fill: "
Attribution == ")[Generated by serverinfo-rest-client . "

\* The page setup and text setup: everything before the header block.
Prologue(out) == SubSeq(out, 1, IndexOf(out, HeaderStart) - 1)

\* The footer: the spacing before it, the attribution and the timestamp.
FooterOf(out) == SubSeq(out, IndexOf(out, FooterStart) - 1, Len(out))

\* The footer up to and including the attribution.
FooterHead(out) == SubSeq(out, IndexOf(out, FooterStart) - 1, IndexOf(out, Attribution))

\* A sequence without its element at position i.
Without(s, i) == SubSeq(s, 1, i - 1) \o SubSeq(s, i + 1, Len(s))

BothVariants ==
    /\ fmtOut.typstPrev.called /\ ~fmtOut.typstPrev.threw
    /\ fmtOut.typstLast.called /\ ~fmtOut.typstLast.threw
    /\ ~Nameless(fmtIn.player)

\* The footer of a document generated at clock reading t.
FooterStamped(out, t) ==
    /\ Has(out, FooterStart)
    /\ Has(out, Attribution)
    /\ FooterOf(out) = FooterHead(out) \o escapeTypstText(toLocaleString(t)) \o <<"]]">>

\* C18 (as stated): the not-found document has the same page setup, text setup
\* and footer as the success document of the same theme.
C18_SameSetupAndFooter ==
    BothVariants =>
        /\ Prologue(fmtOut.typstPrev.out) = Prologue(fmtOut.typstLast.out)
        /\ FooterHead(fmtOut.typstPrev.out) = FooterHead(fmtOut.typstLast.out)
        /\ FooterStamped(fmtOut.typstPrev.out, fmtOut.typstPrev.clock)
        /\ FooterStamped(fmtOut.typstLast.out, fmtOut.typstLast.clock)

\* C18 (amended): the not-found document has the page height, margins and
\* background fill, the text setup and the footer (attribution and the
\* timestamp of its own generation) of the success document of the same theme;
\* the page width differs, 400pt against 450pt.
C18_SameSetupButWidth ==
    BothVariants =>
        LET nf == fmtOut.typstPrev.out
            ok == fmtOut.typstLast.out
        IN  /\ nf[2] = "width: 400pt,"
            /\ ok[2] = "width: 450pt,"
            /\ Without(Prologue(nf), 2) = Without(Prologue(ok), 2)
            /\ FooterHead(nf) = FooterHead(ok)
            /\ FooterStamped(nf, fmtOut.typstPrev.clock)
            /\ FooterStamped(ok, fmtOut.typstLast.clock)
            /\ \A k \in DOMAIN PanelTitles : ~Has(nf, PanelTitles[k])
            /\ Count(nf, "#block(fill: ") = 1

\* A not-found document and a success document of a theme with a configured
\* page colour, generated at different clock readings.
C18_Witness ==
    /\ BothVariants
    /\ cfg.typstPageBgColor = Str(<<"#", "0", "0", "0">>)
    /\ fmtOut.typstPrev.clock # fmtOut.typstLast.clock
    /\ Has(fmtOut.typstLast.out, PanelTitles.basic)


(***************************************************************************)
(* SpecColor: buildTypstTheme called on a configuration one of whose       *)
(* colours was set by the operator; ret.str keeps the theme's expression   *)
(* for that colour.                                                        *)
(***************************************************************************)
MaxColorLen == 2

ColorFields == DOMAIN FallbackColors

ColorChars == {"#", "f", "z", "\"", " "}

ColorValues ==
    {UndefinedStr}
    \cup {Str(s) : s \in StringsUpTo(ColorChars, MaxColorLen)}
    \cup {Str(s) : s \in {<<"#", "f", "f", "f">>, <<" ", "#", "0", "a", "F", "9", "1", "2", " ">>,
                          <<"#", "1", "2", "3", "4", "5", "g">>,
                          <<"#", "\"", ")", " ", "+", " ", "x">>,
                          <<"r", "e", "d">>,
                          <<"r", "g", "b", "(", "1", ",", "2", ",", "3", ")">>,
                          <<"R", "G", "B", " ", "(", " ", "1", "0", " ", ",", "2", "2", ",",
                            " ", "2", "5", "5", " ", ")">>,
                          <<"r", "g", "b", "(", "9", "9", "9", ",", "0", ",", "0", ")">>,
                          <<"r", "g", "b", "(", "1", ",", "2", ")">>,
                          <<"r", "g", "b", "(", "1", ",", "2", ",", "3", ")", "x">>,
                          <<"r", "g", "b", "(", "1", "2", "3", "4", ",", "2", ",", "3", ")">>}}

\* The configuration with one colour set.
SetColor(c, field, v) ==
    CASE field = "pageBg" -> [c EXCEPT !.typstPageBgColor = v]
      [] field = "textColor" -> [c EXCEPT !.typstTextColor = v]
      [] field = "headerFill" -> [c EXCEPT !.typstHeaderFillColor = v]
      [] field = "headerStroke" -> [c EXCEPT !.typstHeaderStrokeColor = v]
      [] field = "headerText" -> [c EXCEPT !.typstHeaderTextColor = v]
      [] field = "panelFill" -> [c EXCEPT !.typstPanelFillColor = v]
      [] field = "panelStroke" -> [c EXCEPT !.typstPanelStrokeColor = v]
      [] field = "sectionTitle" -> [c EXCEPT !.typstSectionTitleColor = v]
      [] field = "statsText" -> [c EXCEPT !.typstStatsTextColor = v]

\* The configured value of a colour.
ColorOf(c, field) ==
    CASE field = "pageBg" -> c.typstPageBgColor
      [] field = "textColor" -> c.typstTextColor
      [] field = "headerFill" -> c.typstHeaderFillColor
      [] field = "headerStroke" -> c.typstHeaderStrokeColor
      [] field = "headerText" -> c.typstHeaderTextColor
      [] field = "panelFill" -> c.typstPanelFillColor
      [] field = "panelStroke" -> c.typstPanelStrokeColor
      [] field = "sectionTitle" -> c.typstSectionTitleColor
      [] field = "statsText" -> c.typstStatsTextColor

InitColor ==
    /\ ret = NoRet
    /\ NoCommand
    /\ now = 0
    /\ fmtIn = NoFmtIn
    /\ fmtOut = NoFmtOut
    /\ \E field \in ColorFields, v \in ColorValues :
          /\ cfg = SetColor(DefaultCfg, field, v)
          /\ call = [NoCall EXCEPT !.fn = "buildTypstTheme", !.key = field]

CallBuildTypstTheme ==
    /\ Pending("buildTypstTheme")
    /\ ret' = [NoRet EXCEPT !.done = TRUE, !.str = buildTypstTheme(cfg)[call.key]]
    /\ UNCHANGED <<cmdVars, call, cfg, now, fmtIn, fmtOut>>

NextColor == CallBuildTypstTheme

SpecColor == InitColor /\ [][NextColor]_vars

HexDigits ==
    {Digit(d) : d \in 0..9} \cup {"a", "b", "c", "d", "e", "f", "A", "B", "C", "D", "E", "F"}

\* '#' followed by three, four, six or eight hexadecimal digits.
IsHexColor(v) ==
    /\ Len(v) \in {4, 5, 7, 9}
    /\ v[1] = "#"
    /\ \A i \in 2..Len(v) : v[i] \in HexDigits

QuotedColor(s) == <<"rgb(", "\"">> \o s \o <<"\"", ")">>

\* The configured value of the colour the call is about, trimmed.
Configured ==
    LET value == ColorOf(cfg, call.key) IN trim(IF value.def THEN value.val ELSE <<>>)

\* C19: the colour expression is built from the configured value only when
\* that value is a hex colour string or an rgb(r,g,b) triple; for every other
\* value it is the expression of the field's default colour.
C19_OnlyHexOrRgb ==
    Returned("buildTypstTheme") =>
        LET v == Configured
            m == rgbMatch(v)
        IN  ret.str = IF IsHexColor(v) THEN QuotedColor(v)
                      ELSE IF m.ok THEN <<"rgb(">> \o m.r \o <<", ">> \o m.g \o <<", ">>
                                        \o m.b \o <<")">>
                      ELSE QuotedColor(FallbackColors[call.key])

\* A '#'-prefixed value that closes the string literal has been turned into a
\* colour expression.
C19_Witness ==
    /\ Returned("buildTypstTheme")
    /\ Configured = <<"#", "\"", ")", " ", "+", " ", "x">>
    /\ ret.str = <<"rgb(", "\"", "#", "\"", ")", " ", "+", " ", "x", "\"", ")">>

\* What the code guarantees: a value that starts with '#' after trimming is
\* passed through between quotes whatever follows the '#'; a value that matches
\* the rgb pattern gives its three digit groups; everything else, the empty and
\* the missing value included, gives the default colour of the field.
C19_HashPrefixPassesThrough ==
    Returned("buildTypstTheme") =>
        LET v == Configured
            m == rgbMatch(v)
        IN  /\ (v # <<>> /\ v[1] = "#") => ret.str = QuotedColor(v)
            /\ (v = <<>> \/ (v[1] # "#" /\ ~m.ok))
                  => ret.str = QuotedColor(FallbackColors[call.key])
            /\ (v # <<>> /\ v[1] # "#" /\ m.ok)
                  => /\ ret.str = <<"rgb(">> \o m.r \o <<", ">> \o m.g \o <<", ">> \o m.b
                                  \o <<")">>
                     /\ \A part \in {m.r, m.g, m.b} :
                           Len(part) \in 1..3 /\ \A i \in 1..Len(part) : IsDigit(part[i])


(***************************************************************************)
(* SpecAbsent: the formatters on named records from which nested objects   *)
(* or numeric values are missing.                                          *)
(***************************************************************************)
MaxAbsent == 2

NestedFields ==
    {"pos", "blockPos", "feetPos", "lastDeathPos", "respawnPos", "biome", "standingOn",
     "device", "handItem", "offHandItem", "armor", "tags"}

\* The record without one nested object.
WithoutField(p, f) ==
    CASE f = "pos" -> [p EXCEPT !.pos = NoPos]
      [] f = "blockPos" -> [p EXCEPT !.blockPos = NoPos]
      [] f = "feetPos" -> [p EXCEPT !.feetPos = NoPos]
      [] f = "lastDeathPos" -> [p EXCEPT !.lastDeathPos = NoPos]
      [] f = "respawnPos" -> [p EXCEPT !.respawnPos = NoPos]
      [] f = "biome" -> [p EXCEPT !.biome = NoBiome]
      [] f = "standingOn" -> [p EXCEPT !.standingOn = NoBlock]
      [] f = "device" -> [p EXCEPT !.device = NoDevice]
      [] f = "handItem" -> [p EXCEPT !.handItem = NoItem]
      [] f = "offHandItem" -> [p EXCEPT !.offHandItem = NoItem]
      [] f = "armor" -> [p EXCEPT !.armor = NoArray]
      [] f = "tags" -> [p EXCEPT !.tags = NoArray]

RECURSIVE WithoutFields(_, _)
WithoutFields(p, fs) ==
    IF fs = {} THEN p
    ELSE LET f == CHOOSE x \in fs : TRUE IN WithoutFields(WithoutField(p, f), fs \ {f})

\* Records whose present nested objects are complete.
ObjectsAbsent ==
    {WithoutFields(FullPlayer, fs) : fs \in SubsetsUpTo(NestedFields, MaxAbsent) \cup {NestedFields}}
    \cup {[WithoutFields(FullPlayer, fs) EXCEPT !.speed = Undefined] :
            fs \in SubsetsUpTo(NestedFields, 1)}

\* Records with a present nested object that lacks a numeric value.
NumbersAbsent ==
    {[FullPlayer EXCEPT !.pos.x = Undefined],
     [FullPlayer EXCEPT !.feetPos.z = Undefined],
     [FullPlayer EXCEPT !.blockPos.y = Undefined],
     [FullPlayer EXCEPT !.device.avgPacketLoss = Undefined],
     [FullPlayer EXCEPT !.device.lastPacketLoss = Undefined]}

InitAbsent ==
    /\ call = NoCall
    /\ ret = NoRet
    /\ NoCommand
    /\ cfg \in {OpenCfg, DefaultCfg}
    /\ now = 0
    /\ \E p \in ObjectsAbsent \cup NumbersAbsent : fmtIn = FmtInput(p, 1)
    /\ fmtOut = NoFmtOut

SpecAbsent == InitAbsent /\ [][NextFmt]_vars

\* The label of the text line and the key of the markup row of a nested object
\* (an empty key where the markup has no row for it).
NestedLines ==
    [pos |-> <<"Exact position: ", "Exact position">>,
     blockPos |-> <<"Block position: ", "Block position">>,
     feetPos |-> <<"Feet position: ", "">>,
     lastDeathPos |-> <<"Last death: ", "Last death">>,
     respawnPos |-> <<"Respawn point: ", "Respawn point">>,
     biome |-> <<"Biome: ", "Biome">>,
     standingOn |-> <<"Standing on: ", "Standing on">>,
     device |-> <<TextHeadings.device[1], PanelTitles.device>>,
     handItem |-> <<"Main hand: ", "">>,
     offHandItem |-> <<"Off hand: ", "">>,
     armor |-> <<"Armor: ", "">>,
     tags |-> <<"Tags: ", "">>]

Present(p, f) ==
    CASE f = "pos" -> p.pos.def
      [] f = "blockPos" -> p.blockPos.def
      [] f = "feetPos" -> p.feetPos.def
      [] f = "lastDeathPos" -> p.lastDeathPos.def
      [] f = "respawnPos" -> p.respawnPos.def
      [] f = "biome" -> p.biome.def
      [] f = "standingOn" -> p.standingOn.def
      [] f = "device" -> p.device.def
      [] f = "handItem" -> p.handItem.def
      [] f = "offHandItem" -> p.offHandItem.def
      [] f = "armor" -> p.armor.def
      [] f = "tags" -> p.tags.def

\* No line of an absent nested object, and no trace of a missing value.
AbsentOmitted(out, p, column) ==
    /\ \A f \in NestedFields : ~Present(p, f) => ~Has(out, NestedLines[f][column])
    /\ ~Has(out, "undefined")
    /\ ~Has(out, "NaN")

\* C20: for a record with a name, whichever nested objects and numeric values
\* (speed, a coordinate, a packet-loss value) are absent, both formatters
\* return: the line of an absent nested object is omitted and a missing numeric
\* value is a placeholder.
C20_AbsentNeverThrows ==
    ~Nameless(fmtIn.player) =>
        /\ fmtOut.textLast.called =>
              /\ ~fmtOut.textLast.threw
              /\ AbsentOmitted(fmtOut.textLast.out, fmtIn.player, 1)
        /\ fmtOut.typstLast.called =>
              /\ ~fmtOut.typstLast.threw
              /\ AbsentOmitted(fmtOut.typstLast.out, fmtIn.player, 2)

\* formatTextOutput was called on a record whose pos has no x coordinate, with
\* 'pos' enabled.
C20_Witness ==
    /\ fmtOut.textLast.called
    /\ fmtOut.typstLast.called
    /\ fmtIn.player.pos.def
    /\ ~fmtIn.player.pos.x.def
    /\ isFieldEnabled(cfg, "pos")

\* What the code guarantees: when every present nested object is complete, both
\* formatters return, the lines of the absent objects are omitted and an absent
\* speed reads N/A.
C20_AbsentObjectsSkipped ==
    fmtIn.player \in ObjectsAbsent =>
        /\ fmtOut.textLast.called =>
              /\ ~fmtOut.textLast.threw
              /\ AbsentOmitted(fmtOut.textLast.out, fmtIn.player, 1)
              /\ (~fmtIn.player.speed.def /\ isFieldEnabled(cfg, "speed"))
                    => Includes(fmtOut.textLast.out, <<"Speed: ", "N/A">>)
        /\ fmtOut.typstLast.called =>
              /\ ~fmtOut.typstLast.threw
              /\ AbsentOmitted(fmtOut.typstLast.out, fmtIn.player, 2)
              /\ (~fmtIn.player.speed.def /\ isFieldEnabled(cfg, "speed"))
                    => Includes(fmtOut.typstLast.out, <<"Speed: :runner: ", "N/A">>)

\* Both formatters returned for a record without any nested object and for one
\* without speed.
C20_AllAbsentReached ==
    /\ TextReturned
    /\ TypstReturned
    /\ \A f \in NestedFields : ~Present(fmtIn.player, f)


(***************************************************************************)
(* C21: TypstRenderer.init is started at most once: once it has started    *)
(* for the first image render, no other call of getTypstRenderer starts it *)
(* again, a call that arrives while the first init is still polling or     *)
(* importing included.                                                     *)
(***************************************************************************)
\* The invocations that are inside init(), at one of its awaits.
InInit == {i \in DOMAIN inv : inv[i].pc \in {"sleeping", "importing"}}

C21_InitAtMostOnce ==
    /\ sharedRenderer.inits <= 1
    /\ Cardinality(InInit) <= 1

\* Two invocations are inside init() of the one instance at the same time.
C21_Witness ==
    /\ sharedRenderer.constructed = 1
    /\ sharedRenderer.inits = 2
    /\ Cardinality(InInit) = 2

\* What the code guarantees: init() is called only on an instance that is not
\* ready, so once an init has completed no call of getTypstRenderer starts it
\* again.
C21_NoInitOnceReady ==
    [][isReady(sharedRenderer) =>
          /\ sharedRenderer'.inits = sharedRenderer.inits
          /\ \A i \in DOMAIN inv : inv'[i].pc \in {"sleeping", "importing"} => i \in InInit]_vars

\* An init is started after an earlier one has failed.
C21_InitAfterFailure ==
    /\ sharedRenderer.inits = 2
    /\ Cardinality(InInit) = 1
    /\ \E i \in DOMAIN inv : inv[i].failed # {}

====
